---- MODULE Spec2Model ----
(***************************************************************************)
(* TunnelManager of service-manager (src/src/main/serviceRuntime.ts,       *)
(* lines 280-613): the per-rule tunnel state machine with its running      *)
(* table, status table, stored configurations and reconnect timers, and    *)
(* the asynchronous start attempts, SSH sessions and local listeners it    *)
(* creates.                                                                *)
(***************************************************************************)
EXTENDS Integers, Sequences, FiniteSets, TLC

\* ------------------------------------------------------------------ bounds

\* start() calls that may be suspended at an await at once
MaxAttempts == 2
\* client/server objects (of attempts and tunnels) alive at once
MaxHandles == 2
\* status events remembered per rule id (the latest ones)
MaxEvents == 2

\* ------------------------------------------------------- program constants

RECONNECT_DELAY_MS == 5000

\* ----------------------------------------------------------------- inputs

Ids == {"f1"}
\* the local ports a ForwardRuntimeConfig for a rule may carry
Ports == {5432, 5433}
\* the error codes a failed bind reports
BindCodes == {"EADDRINUSE", "EACCES", "OTHER"}

\* Timestamps are kept relative to the current instant: Date.now() reads Now, and a
\* clock tick ages every stored timestamp by TickMs, down to -Horizon.
Now == 0
TickMs == RECONNECT_DELAY_MS \div 2
Horizon == 3 * RECONNECT_DELAY_MS

\* undefined: no entry in a Map, no reconnectAt, no error
None == 0
NoTime == -999999
NoStatus == [status |-> "absent"]

\* the endpoints every ForwardRuntimeConfig of the model carries besides its localPort
LocalHost == "127.0.0.1"
SshHost == "ssh.example"
SshPort == 22

\* An error message: its fixed wording, the host and port it names and the cause
\* (the raw message of the underlying error) it quotes.
Msg(text, host, port, cause) == [text |-> text, host |-> host, port |-> port, cause |-> cause]
NoError == Msg("", "", None, "")

Handles == 1..MaxHandles

\* no startService call, no session being opened
NoCall == [pc |-> "idle"]
NoLink == [pc |-> "idle"]
NoApp == [pc |-> "off"]

VARIABLES
  running,          \* TunnelManager.running: id -> handle of the registered {client, server}
  statuses,         \* TunnelManager.statuses: id -> TunnelStatusChange or NoStatus
  configs,          \* TunnelManager.configs: id -> stored localPort or None
  reconnectTimers,  \* TunnelManager.reconnectTimers: id -> timer handle or None
  timers,           \* timeouts armed with setTimeout and neither fired nor cleared
  attempts,         \* start() calls suspended at an await
  tunnels,          \* SSH clients / local servers created by start() and still alive
  events,           \* per id, the latest 'status-changed' events emitted
  emitted,          \* per id, how many events the last step emitted
  trace,            \* per id, every event emitted while the scenario is followed
  quiet,            \* per id: stop(id) was called and start(id) has not been called since
  scenario,         \* per id: progress of "one start, then only pre-check failures"
  lastOp,           \* the operation of the last step
  rejected,         \* the message the last step rejected a start() promise with, or NoError
  deleted,          \* per id: the rule was deleted and neither start(id) nor stop(id)
                    \* has been called since
  conns,            \* client connections accepted by the listener of a running tunnel
  svc,              \* one call of a serviceRuntime function: inputs, position, result
  link,             \* one SSH session being opened for a rule or a service forward
  app               \* the main process: store, status maps, port forward, IPC handlers

vars == <<running, statuses, configs, reconnectTimers, timers, attempts, tunnels, events,
          emitted, trace, quiet, scenario, lastOp, rejected, deleted, conns, svc,
          link, app>>

\* the state of the TunnelManager and of its observers
tunnelVars == <<running, statuses, configs, reconnectTimers, timers, attempts, tunnels,
                events, emitted, trace, quiet, scenario, lastOp, rejected, deleted>>

\* ------------------------------------------------------- the manager state

\* The fields of a TunnelManager together with the objects it created, as one value;
\* out collects the events an operation emits, thrown the error it throws.
Cur ==
  [running |-> running, statuses |-> statuses, configs |-> configs,
   reconnectTimers |-> reconnectTimers, timers |-> timers, attempts |-> attempts,
   tunnels |-> tunnels, out |-> [id \in Ids |-> <<>>], thrown |-> NoError]

\* the last n elements of s
Last(s, n) == IF Len(s) <= n THEN s ELSE SubSeq(s, Len(s) - n + 1, Len(s))

\* an event as a subscriber receives it
Payload(e) == [status |-> e.status, error |-> e.error, reconnectAt |-> e.reconnectAt]

SetState(m) ==
  /\ running' = m.running
  /\ statuses' = m.statuses
  /\ configs' = m.configs
  /\ reconnectTimers' = m.reconnectTimers
  /\ timers' = m.timers
  /\ attempts' = m.attempts
  /\ tunnels' = m.tunnels
  /\ events' = [id \in Ids |->
                 Last(events[id] \o [i \in 1..Len(m.out[id]) |-> Payload(m.out[id][i])],
                      MaxEvents)]
  /\ emitted' = [id \in Ids |-> Len(m.out[id])]
  /\ rejected' = m.thrown

Max(a, b) == IF a >= b THEN a ELSE b

UsedHandles(m) == {a.h : a \in m.attempts} \cup {t.h : t \in m.tunnels}
HasFreshHandle(m) == \E h \in Handles : h \notin UsedHandles(m)
\* new Client(): the lowest handle no live object carries
FreshHandle(m) ==
  CHOOSE h \in Handles :
    h \notin UsedHandles(m) /\ \A g \in Handles : g < h => g \in UsedHandles(m)

\* setTimeout(): the lowest handle no pending timeout carries
FreshTimer(m) ==
  CHOOSE h \in 1..(Cardinality(m.timers) + 1) :
    (\A t \in m.timers : t.h # h) /\ \A g \in 1..(h - 1) : \E t \in m.timers : t.h = g

\* getStatus
GetStatus(m, id) ==
  IF m.statuses[id] = NoStatus
    THEN [status |-> "stopped", error |-> NoError, reconnectAt |-> NoTime]
    ELSE m.statuses[id]

\* clearReconnectTimer
ClearReconnectTimer(m, id) ==
  IF m.reconnectTimers[id] = None
    THEN m
    ELSE [m EXCEPT !.timers = {t \in @ : t.h # m.reconnectTimers[id]},
                   !.reconnectTimers[id] = None]

\* updateStatus falling back to the previous reconnectAt when the change carries none
\* (as it does for hostId)
UpdateStatusKeepsReconnectAt(m, id, status, error, reconnectAt) ==
  LET at == IF reconnectAt = NoTime THEN GetStatus(m, id).reconnectAt ELSE reconnectAt
  IN [m EXCEPT !.statuses[id] = [status |-> status, error |-> error, reconnectAt |-> at],
               !.out[id] = Append(@, [status |-> status, error |-> error,
                                      reconnectAt |-> at, at |-> Now])]

\* updateStatus: record the status and emit 'status-changed'
UpdateStatus(m, id, status, error, reconnectAt) ==
  [m EXCEPT !.statuses[id] = [status |-> status, error |-> error, reconnectAt |-> reconnectAt],
            !.out[id] = Append(@, [status |-> status, error |-> error,
                                   reconnectAt |-> reconnectAt, at |-> Now])]

\* server.close() and client.end() on the pair of handle h
CloseTunnel(ts, h) ==
  {IF t.h = h
     THEN [t EXCEPT !.server = FALSE, !.client = IF @ = "open" THEN "ending" ELSE @]
     ELSE t : t \in ts}

\* cleanup
Cleanup(m, id, keepStatus) ==
  IF m.running[id] = None
    THEN m
    ELSE LET m1 == [m EXCEPT !.running[id] = None,
                             !.tunnels = CloseTunnel(@, m.running[id])]
         IN IF keepStatus THEN m1 ELSE UpdateStatus(m1, id, "stopped", NoError, NoTime)

\* scheduleReconnect arming the new timer without clearing the pending one
ScheduleReconnectNoClear(m, id, reconnectAt) ==
  IF m.configs[id] = None
    THEN m
    ELSE [m EXCEPT !.timers = @ \cup {[h |-> FreshTimer(m), id |-> id,
                                       port |-> m.configs[id],
                                       due |-> Now + Max(0, reconnectAt - Now)]},
                   !.reconnectTimers[id] = FreshTimer(m)]

\* scheduleReconnect
ScheduleReconnect(m, id, reconnectAt) ==
  IF m.configs[id] = None
    THEN m
    ELSE LET m1 == ClearReconnectTimer(m, id)
             delay == Max(0, reconnectAt - Now)
         IN [m1 EXCEPT !.timers = @ \cup {[h |-> FreshTimer(m), id |-> id,
                                           port |-> m.configs[id], due |-> Now + delay]},
                       !.reconnectTimers[id] = FreshTimer(m)]

\* markErrorAndScheduleReconnect with reconnectAt = Date.now(): no delay
MarkErrorNoDelay(m, id, error) ==
  ScheduleReconnect(UpdateStatus(m, id, "error", error, Now), id, Now)

\* markErrorAndScheduleReconnect
MarkErrorAndScheduleReconnect(m, id, error) ==
  LET reconnectAt == Now + RECONNECT_DELAY_MS
  IN ScheduleReconnect(UpdateStatus(m, id, "error", error, reconnectAt), id, reconnectAt)

\* buildStartError reporting every bind failure as the generic one
BuildStartErrorUnclassified(stage, port, code) ==
  IF stage \in {"local-port-precheck", "local-listen"}
    THEN Msg("Failed to bind local listener.", LocalHost, port, code)
    ELSE Msg("Unable to connect SSH.", SshHost, SshPort, code)

\* buildStartError: the message of a failed start, by stage and error code
BuildStartError(stage, port, code) ==
  IF stage \in {"local-port-precheck", "local-listen"}
    THEN IF code = "EADDRINUSE"
           THEN Msg("Local port is already in use.", LocalHost, port, "")
         ELSE IF code = "EACCES"
           THEN Msg("Permission denied when binding.", LocalHost, port, "")
         ELSE Msg("Failed to bind local listener.", LocalHost, port, code)
    ELSE Msg("Unable to connect SSH.", SshHost, SshPort, code)

\* the clients and servers that can still hold a resource or deliver an event
Reap(m) ==
  [m EXCEPT !.tunnels = {t \in @ : \/ t.server
                                   \/ t.client = "open"
                                   \/ t.client = "ending" /\ t.bound
                                   \/ \E a \in m.attempts : a.h = t.h}]

\* start() without the early return for an id that is in the running table
StartNoRunningCheck(m, cfg) ==
  LET m1 == ClearReconnectTimer([m EXCEPT !.configs[cfg.id] = cfg.port], cfg.id)
      m2 == UpdateStatus(m1, cfg.id, "starting", NoError, NoTime)
  IN [m2 EXCEPT !.attempts = @ \cup {[h |-> FreshHandle(m2), id |-> cfg.id,
                                      port |-> cfg.port, stage |-> "precheck"]}]

\* start(), up to its first await
Start(m, cfg) ==
  LET m1 == ClearReconnectTimer([m EXCEPT !.configs[cfg.id] = cfg.port], cfg.id)
  IN IF m1.running[cfg.id] # None
       THEN m1
       ELSE LET m2 == UpdateStatus(m1, cfg.id, "starting", NoError, NoTime)
            IN [m2 EXCEPT !.attempts = @ \cup {[h |-> FreshHandle(m2), id |-> cfg.id,
                                                port |-> cfg.port, stage |-> "precheck"]}]

\* start(), the catch block entered by the suspended call a
StartCatch(m, a, error) ==
  LET m1 == [m EXCEPT !.attempts = @ \ {a},
                      !.tunnels = {IF t.h = a.h /\ t.client = "open"
                                     THEN [t EXCEPT !.client = "ending"] ELSE t : t \in @}]
      m2 == Cleanup(m1, a.id, TRUE)
      m3 == MarkErrorAndScheduleReconnect(m2, a.id, error)
  IN Reap([m3 EXCEPT !.thrown = error])

\* start(), from the resolved listen to the end of the try block
StartSucceed(m, a) ==
  LET m1 == [m EXCEPT !.attempts = @ \ {a},
                      !.tunnels = {IF t.h = a.h THEN [t EXCEPT !.server = TRUE, !.bound = TRUE]
                                                ELSE t : t \in @},
                      !.running[a.id] = a.h]
  IN UpdateStatus(m1, a.id, "running", NoError, NoTime)

\* stop() without clearReconnectTimer
StopKeepsTimer(m, id) ==
  IF m.running[id] = None
    THEN UpdateStatus(m, id, "stopped", NoError, NoTime)
    ELSE LET m2 == UpdateStatus(m, id, "stopping", NoError, NoTime)
             m3 == Cleanup(m2, id, TRUE)
         IN UpdateStatus(m3, id, "stopped", NoError, NoTime)

\* stop()
Stop(m, id) ==
  LET m1 == ClearReconnectTimer(m, id)
  IN IF m1.running[id] = None
       THEN UpdateStatus(m1, id, "stopped", NoError, NoTime)
       ELSE LET m2 == UpdateStatus(m1, id, "stopping", NoError, NoTime)
                m3 == Cleanup(m2, id, TRUE)
            IN UpdateStatus(m3, id, "stopped", NoError, NoTime)

\* clearTunnel()
ClearTunnel(m, id) ==
  LET m1 == ClearReconnectTimer(m, id)
  IN [m1 EXCEPT !.configs[id] = None, !.statuses[id] = NoStatus]

HandleRuntimeNoCleanup(m, id, error) ==
  IF m.running[id] = None
    THEN m
    ELSE MarkErrorAndScheduleReconnect(m, id, error)

\* the listeners bound by bindRuntimeHandlers: they act only while the id is in the
\* running table
HandleRuntime(m, id, error) ==
  IF m.running[id] = None
    THEN m
    ELSE MarkErrorAndScheduleReconnect(Cleanup(m, id, TRUE), id, error)

RECURSIVE ClearMany(_, _)
ClearMany(m, S) ==
  IF S = {} THEN m
  ELSE LET id == CHOOSE x \in S : TRUE IN ClearMany(ClearReconnectTimer(m, id), S \ {id})

RECURSIVE StopMany(_, _)
StopMany(m, S) ==
  IF S = {} THEN m
  ELSE LET id == CHOOSE x \in S : TRUE IN StopMany(Stop(m, id), S \ {id})

\* stopAll()
StopAll(m) ==
  LET m1 == ClearMany(m, {id \in Ids : m.reconnectTimers[id] # None})
  IN StopMany(m1, {id \in Ids : m1.running[id] # None})

\* the callback armed by scheduleReconnect
ReconnectCallback(m, t) ==
  LET m1 == [m EXCEPT !.timers = @ \ {t}, !.reconnectTimers[t.id] = None]
  IN IF m1.statuses[t.id].status \in {"stopped", "stopping"}
       THEN m1
       ELSE Start(m1, [id |-> t.id, port |-> t.port])

\* ------------------------------------------------------------------ actions

\* what the bounds leave room for
Fits(m) == Cardinality(m.attempts) <= MaxAttempts

PortFree(port) == \A t \in tunnels : ~(t.server /\ t.port = port)

ScenarioStep(s, op) ==
  IF op = "start" /\ s = "idle" THEN "s0"
  ELSE IF op = "precheck-fail" /\ s = "s0" THEN "s1"
  ELSE IF op = "precheck-fail" /\ s = "s1" THEN "s2"
  ELSE IF op = "precheck-fail" /\ s = "s2" THEN "s3"
  ELSE "off"

\* the scenario's record of events: kept while the scenario is followed
Traced(m, scen) ==
  [id \in Ids |-> IF scen[id] \in {"idle", "off"} THEN <<>> ELSE trace[id] \o m.out[id]]

Op(op, id, h) == [op |-> op, id |-> id, h |-> h]

\* the TunnelManager as constructed, nothing observed yet
TunnelInit ==
  /\ running = [id \in Ids |-> None]
  /\ statuses = [id \in Ids |-> NoStatus]
  /\ configs = [id \in Ids |-> None]
  /\ reconnectTimers = [id \in Ids |-> None]
  /\ timers = {}
  /\ attempts = {}
  /\ tunnels = {}
  /\ events = [id \in Ids |-> <<>>]
  /\ emitted = [id \in Ids |-> 0]
  /\ trace = [id \in Ids |-> <<>>]
  /\ quiet = [id \in Ids |-> FALSE]
  /\ scenario = [id \in Ids |-> "idle"]
  /\ lastOp = Op("init", "-", None)
  /\ rejected = NoError
  /\ deleted = [id \in Ids |-> FALSE]

Init ==
  /\ TunnelInit
  /\ conns = {}
  /\ svc = NoCall
  /\ link = NoLink
  /\ app = NoApp

\* a caller invokes start(config)
StartCall(cfg) ==
  LET m == Start(Cur, cfg)
  IN /\ running[cfg.id] # None \/ HasFreshHandle(Cur)
     /\ Fits(m)
     /\ SetState(m)
     /\ UNCHANGED <<conns, svc, link, app>>
     /\ quiet' = [quiet EXCEPT ![cfg.id] = FALSE]
     /\ deleted' = [deleted EXCEPT ![cfg.id] = FALSE]
     /\ scenario' = [scenario EXCEPT ![cfg.id] = ScenarioStep(@, "start")]
     /\ trace' = Traced(m, scenario')
     /\ lastOp' = Op("start", cfg.id, None)

\* assertLocalEndpointAvailable resolves: start() goes on to connectClient
PrecheckOk(a) ==
  /\ a.stage = "precheck"
  /\ PortFree(a.port)
  /\ attempts' = (attempts \ {a}) \cup {[a EXCEPT !.stage = "connect"]}
  /\ scenario' = [scenario EXCEPT ![a.id] = "off"]
  /\ trace' = [trace EXCEPT ![a.id] = <<>>]
  /\ emitted' = [id \in Ids |-> 0]
  /\ lastOp' = Op("precheck-ok", a.id, a.h)
  /\ rejected' = NoError
  /\ UNCHANGED <<conns, svc, link, app>>
  /\ UNCHANGED <<running, statuses, configs, reconnectTimers, timers, tunnels, events, quiet,
                 deleted>>

\* the suspended start() call a fails with message error
Fail(a, op, error) ==
  LET m == StartCatch(Cur, a, error)
  IN /\ SetState(m)
     /\ UNCHANGED <<conns, svc, link, app>>
     /\ scenario' = [scenario EXCEPT ![a.id] = ScenarioStep(@, op)]
     /\ trace' = Traced(m, scenario')
     /\ lastOp' = Op(op, a.id, a.h)
     /\ UNCHANGED <<quiet, deleted>>

\* assertLocalEndpointAvailable rejects
PrecheckFail(a, code) ==
  /\ a.stage = "precheck"
  /\ Fail(a, "precheck-fail", BuildStartError("local-port-precheck", a.port, code))

\* connectClient resolves: the session is ready, start() goes on to createLocalServer
ConnectOk(a) ==
  /\ a.stage = "connect"
  /\ attempts' = (attempts \ {a}) \cup {[a EXCEPT !.stage = "listen"]}
  /\ tunnels' = tunnels \cup {[h |-> a.h, id |-> a.id, port |-> a.port, client |-> "open",
                                server |-> FALSE, bound |-> FALSE]}
  /\ scenario' = [scenario EXCEPT ![a.id] = "off"]
  /\ trace' = [trace EXCEPT ![a.id] = <<>>]
  /\ emitted' = [id \in Ids |-> 0]
  /\ lastOp' = Op("connect-ok", a.id, a.h)
  /\ rejected' = NoError
  /\ UNCHANGED <<conns, svc, link, app>>
  /\ UNCHANGED <<running, statuses, configs, reconnectTimers, timers, events, quiet, deleted>>

\* connectClient rejects
ConnectFail(a) ==
  /\ a.stage = "connect"
  /\ Fail(a, "connect-fail", BuildStartError("target-connect", a.port, "OTHER"))

\* createLocalServer resolves: the pair is registered and the rule runs
ListenOk(a) ==
  LET m == StartSucceed(Cur, a)
  IN /\ a.stage = "listen"
     /\ PortFree(a.port)
     /\ SetState(m)
     /\ UNCHANGED <<conns, svc, link, app>>
     /\ scenario' = [scenario EXCEPT ![a.id] = "off"]
     /\ trace' = Traced(m, scenario')
     /\ lastOp' = Op("listen-ok", a.id, a.h)
     /\ UNCHANGED <<quiet, deleted>>

\* createLocalServer rejects
ListenFail(a, code) ==
  /\ a.stage = "listen"
  /\ Fail(a, "listen-fail", BuildStartError("local-listen", a.port, code))

\* a caller invokes stop(id)
StopCall(id) ==
  LET m == Stop(Cur, id)
  IN /\ SetState(m)
     /\ UNCHANGED <<conns, svc, link, app>>
     /\ quiet' = [quiet EXCEPT ![id] = TRUE]
     /\ scenario' = [scenario EXCEPT ![id] = "off"]
     /\ trace' = Traced(m, scenario')
     /\ lastOp' = Op("stop", id, None)
     /\ deleted' = [deleted EXCEPT ![id] = FALSE]

\* a caller invokes stopAll()
StopAllCall ==
  LET m == StopAll(Cur)
  IN /\ SetState(m)
     /\ UNCHANGED <<conns, svc, link, app>>
     /\ quiet' = [id \in Ids |-> quiet[id] \/ running[id] # None]
     /\ scenario' = [id \in Ids |-> "off"]
     /\ trace' = Traced(m, scenario')
     /\ lastOp' = Op("stopAll", "-", None)
     /\ UNCHANGED deleted

\* the rule is deleted: stop(id), then clearTunnel(id)
DeleteForward(id) ==
  LET m == ClearTunnel(Stop(Cur, id), id)
  IN /\ SetState(m)
     /\ UNCHANGED <<conns, svc, link, app>>
     /\ quiet' = [quiet EXCEPT ![id] = TRUE]
     /\ scenario' = [scenario EXCEPT ![id] = "off"]
     /\ trace' = Traced(m, scenario')
     /\ lastOp' = Op("delete", id, None)
     /\ deleted' = [deleted EXCEPT ![id] = TRUE]

\* a runtime event on the client or server of tunnel t reaches its listeners
Runtime(t, op, after, error) ==
  LET m1 == [Cur EXCEPT !.tunnels = (@ \ {t}) \cup {after}]
      m == Reap(IF t.bound THEN HandleRuntime(m1, t.id, error) ELSE m1)
  IN /\ SetState(m)
     /\ UNCHANGED <<conns, svc, link, app>>
     /\ scenario' = [scenario EXCEPT ![t.id] = "off"]
     /\ trace' = Traced(m, scenario')
     /\ lastOp' = Op(op, t.id, t.h)
     /\ UNCHANGED <<quiet, deleted>>

\* the SSH client of tunnel t emits 'close'
ClientClose(t) ==
  /\ t.client \in {"open", "ending"}
  /\ Runtime(t, "client-close", [t EXCEPT !.client = "closed"],
             Msg("SSH connection closed unexpectedly.", "", None, ""))

\* the SSH client of the registered tunnel t emits 'error'
ClientError(t) ==
  /\ t.bound
  /\ t.client = "open"
  /\ Runtime(t, "client-error", t, Msg("SSH error", "", None, "OTHER"))

\* the local server of the registered tunnel t emits 'error'
ServerError(t) ==
  /\ t.bound
  /\ t.server
  /\ Runtime(t, "server-error", t, Msg("Local listener error", "", None, "OTHER"))

\* a reconnect timer comes due
TimerFire(t) ==
  LET m == ReconnectCallback(Cur, t)
  IN /\ Now >= t.due
     /\ \/ GetStatus(Cur, t.id).status \in {"stopped", "stopping"}
        \/ running[t.id] # None
        \/ HasFreshHandle(Cur)
     /\ Fits(m)
     /\ SetState(m)
     /\ UNCHANGED <<conns, svc, link, app>>
     /\ trace' = Traced(m, scenario)
     /\ lastOp' = Op("timer", t.id, None)
     /\ UNCHANGED <<quiet, scenario, deleted>>

Age(ts) == IF ts = NoTime THEN NoTime ELSE Max(ts - TickMs, 0 - Horizon)
AgeEvents(es) == [i \in 1..Len(es) |-> [es[i] EXCEPT !.reconnectAt = Age(@)]]

\* time passes; the manager reads the clock only to arm and to fire timers, so the
\* clock is advanced only while a timer waits to come due
Tick ==
  /\ \E t \in timers : Now < t.due
  /\ timers' = {[t EXCEPT !.due = Age(@)] : t \in timers}
  /\ statuses' = [id \in Ids |-> IF statuses[id] = NoStatus THEN NoStatus
                                 ELSE [statuses[id] EXCEPT !.reconnectAt = Age(@)]]
  /\ events' = [id \in Ids |-> AgeEvents(events[id])]
  /\ trace' = [id \in Ids |->
                [i \in 1..Len(trace[id]) |->
                  [trace[id][i] EXCEPT !.reconnectAt = Age(@), !.at = Age(@)]]]
  /\ emitted' = [id \in Ids |-> 0]
  /\ lastOp' = Op("tick", "-", None)
  /\ rejected' = NoError
  /\ UNCHANGED <<conns, svc, link, app>>
  /\ UNCHANGED <<running, configs, reconnectTimers, attempts, tunnels, quiet, scenario,
                 deleted>>

Next ==
  \/ \E id \in Ids, port \in Ports : StartCall([id |-> id, port |-> port])
  \/ \E a \in attempts : PrecheckOk(a)
  \/ \E a \in attempts, code \in BindCodes : PrecheckFail(a, code)
  \/ \E a \in attempts : ConnectOk(a)
  \/ \E a \in attempts : ConnectFail(a)
  \/ \E a \in attempts : ListenOk(a)
  \/ \E a \in attempts, code \in BindCodes : ListenFail(a, code)
  \/ \E id \in Ids : StopCall(id)
  \/ StopAllCall
  \/ \E id \in Ids : DeleteForward(id)
  \/ \E t \in tunnels : ClientClose(t)
  \/ \E t \in tunnels : ClientError(t)
  \/ \E t \in tunnels : ServerError(t)
  \/ \E t \in timers : TimerFire(t)
  \/ Tick

Spec == Init /\ [][Next]_vars

\* --------------------------------------------------- opening an SSH session

\* Who opens the session: TunnelManager.start, PortForwardManager.start, or the
\* PortForwardManager.start that knows host.jumpHost.
LinkKinds == {"tunnel", "forward", "forward-jump"}
AuthTypes == {"password", "privateKey"}
\* how a connect that does not become ready ends
ConnectErrors == {"error", "closed-before-ready"}

\* the host configurations a session is opened for: jumpAuth is "none" when the host
\* has no jumpHost; key says whether a private key is configured for the target
HostInputs ==
  {[auth |-> a, key |-> k, jump |-> j, jumpAuth |-> ja] :
     a \in AuthTypes, k \in BOOLEAN, j \in BOOLEAN, ja \in AuthTypes \cup {"none"}}

\* TunnelManager.toConnectConfig: the ConnectConfig of a rule; a missing private key
\* becomes the empty string, and no sock is ever set
TunnelConnectConfig(host) ==
  [host |-> SshHost, port |-> SshPort, auth |-> host.auth, sock |-> FALSE, ok |-> TRUE]

\* PortForwardManager.toConnectConfig: rejects when the private key is missing
ForwardConnectConfig(host) ==
  [host |-> SshHost, port |-> SshPort, auth |-> host.auth, sock |-> FALSE,
   ok |-> host.auth = "password" \/ host.key]

\* client.connect(config): ssh2 runs the handshake over config.sock when it is set and
\* opens a TCP connection to config.host:config.port otherwise
ConnectStep(config) == IF config.sock THEN "target-over-relay" ELSE "target-direct"

LinkFrame == UNCHANGED <<tunnelVars, conns, svc, app>>

LinkInit ==
  \E kind \in LinkKinds, host \in HostInputs :
    /\ host.jump <=> host.jumpAuth # "none"
    /\ link = [pc |-> "begin", kind |-> kind, host |-> host, log |-> <<>>, err |-> ""]

\* TunnelManager.start reaches connectClient(client, toConnectConfig(config))
TunnelConnect ==
  /\ LinkFrame
  /\ link.pc = "begin" /\ link.kind = "tunnel"
  /\ link' = [link EXCEPT !.pc = "target-connecting",
                           !.log = Append(@, ConnectStep(TunnelConnectConfig(link.host)))]

\* PortForwardManager.start: toConnectConfig, then connectClient
ForwardConnect ==
  /\ LinkFrame
  /\ link.pc = "begin" /\ link.kind = "forward"
  /\ LET config == ForwardConnectConfig(link.host)
     IN link' = IF config.ok
                  THEN [link EXCEPT !.pc = "target-connecting",
                                    !.log = Append(@, ConnectStep(config))]
                  ELSE [link EXCEPT !.pc = "failed", !.err = "private-key-required"]

\* PortForwardManager.start with jumpHost support, up to its first connectClient
ForwardJumpBegin ==
  /\ LinkFrame
  /\ link.pc = "begin" /\ link.kind = "forward-jump"
  /\ LET config == ForwardConnectConfig(link.host)
     IN link' = IF ~config.ok
                  THEN [link EXCEPT !.pc = "failed", !.err = "private-key-required"]
                ELSE IF link.host.jump
                  THEN [link EXCEPT !.pc = "jump-connecting", !.log = Append(@, "jump-connect")]
                ELSE [link EXCEPT !.pc = "target-connecting",
                                  !.log = Append(@, ConnectStep(config))]

\* the jump session is ready: forwardOut to the target host:port is requested
JumpReady ==
  /\ LinkFrame
  /\ link.pc = "jump-connecting"
  /\ link' = [link EXCEPT !.pc = "forward-out", !.log = @ \o <<"jump-ready", "forward-out">>]

\* the relay stream is open: connectClient(targetClient, config with sock = stream)
ForwardOutOpen ==
  /\ LinkFrame
  /\ link.pc = "forward-out"
  /\ LET config == [ForwardConnectConfig(link.host) EXCEPT !.sock = TRUE]
     IN link' = [link EXCEPT !.pc = "target-connecting",
                             !.log = Append(@, ConnectStep(config))]

ForwardOutRejected ==
  /\ LinkFrame
  /\ link.pc = "forward-out"
  /\ link' = [link EXCEPT !.pc = "failed", !.err = "forward-out-rejected"]

\* connectClient resolves
LinkReady ==
  /\ LinkFrame
  /\ link.pc = "target-connecting"
  /\ link' = [link EXCEPT !.pc = "ready"]

\* connectClient rejects, for the jump session or the target session
LinkConnectFail(e) ==
  /\ LinkFrame
  /\ link.pc \in {"jump-connecting", "target-connecting"}
  /\ link' = [link EXCEPT !.pc = "failed", !.err = e]

LinkNext ==
  \/ TunnelConnect
  \/ ForwardConnect
  \/ ForwardJumpBegin
  \/ JumpReady
  \/ ForwardOutOpen
  \/ ForwardOutRejected
  \/ LinkReady
  \/ \E e \in ConnectErrors : LinkConnectFail(e)

LinkSpecInit ==
  /\ TunnelInit
  /\ conns = {}
  /\ svc = NoCall
  /\ app = NoApp
  /\ LinkInit

\* opening one SSH session, for every kind of opener and host configuration
LinkSpec == LinkSpecInit /\ [][LinkNext]_vars

\* ------------------------------------- relaying client connections (createLocalServer)

\* client connections the listener of the running tunnel has accepted so far
MaxConns == 3

\* the failures of one relayed connection
RelayFailures == {"forward-out-rejected", "socket-error", "stream-error"}

\* The manager right after start({id, localPort: 5432}) resolved for every id: the
\* pair of handle 1 is registered and the status is running.
TunnelRunning ==
  /\ running = [id \in Ids |-> 1]
  /\ statuses = [id \in Ids |-> [status |-> "running", error |-> NoError,
                                  reconnectAt |-> NoTime]]
  /\ configs = [id \in Ids |-> 5432]
  /\ reconnectTimers = [id \in Ids |-> None]
  /\ timers = {}
  /\ attempts = {}
  /\ tunnels = {[h |-> 1, id |-> id, port |-> 5432, client |-> "open", server |-> TRUE,
                  bound |-> TRUE] : id \in Ids}
  /\ events = [id \in Ids |->
                 <<[status |-> "starting", error |-> NoError, reconnectAt |-> NoTime],
                   [status |-> "running", error |-> NoError, reconnectAt |-> NoTime]>>]
  /\ emitted = [id \in Ids |-> 1]
  /\ trace = [id \in Ids |-> <<>>]
  /\ quiet = [id \in Ids |-> FALSE]
  /\ scenario = [id \in Ids |-> "off"]
  /\ rejected = NoError
  /\ deleted = [id \in Ids |-> FALSE]

RelayInit ==
  /\ TunnelRunning
  /\ lastOp = Op("listen-ok", CHOOSE id \in Ids : TRUE, 1)
  /\ conns = {}
  /\ svc = NoCall
  /\ link = NoLink
  /\ app = NoApp

\* a step of the connection handler: the manager is not involved
RelayStep(op, t, c) ==
  /\ lastOp' = Op(op, t.id, c)
  /\ emitted' = [id \in Ids |-> 0]
  /\ rejected' = NoError
  /\ UNCHANGED <<running, statuses, configs, reconnectTimers, timers, attempts, tunnels,
                 events, trace, quiet, scenario, deleted, svc, link, app>>

\* The listener of tunnel t accepts a client socket; the handler requests a
\* forward-out channel. Until the request is answered the socket has no 'error'
\* listener (guarded = FALSE).
Accept(t) ==
  /\ t.server /\ t.client = "open"
  /\ Cardinality(conns) < MaxConns
  /\ LET c == Cardinality(conns) + 1
     IN /\ conns' = conns \cup {[c |-> c, t |-> t.h, socket |-> "open",
                                  stream |-> "requested", guarded |-> FALSE,
                                  uncaught |-> FALSE]}
        /\ RelayStep("accept", t, c)

Tunnel(h) == CHOOSE t \in tunnels : t.h = h

\* forwardOut calls back with an error: socket.once('error', noop); socket.destroy()
ForwardOutRefused(c) ==
  /\ c.stream = "requested"
  /\ conns' = (conns \ {c}) \cup {[c EXCEPT !.socket = "destroyed", !.stream = "refused",
                                              !.guarded = TRUE]}
  /\ RelayStep("forward-out-rejected", Tunnel(c.t), c.c)

\* forwardOut calls back with the channel: the two are piped into each other and each
\* gets an 'error' listener that destroys the other. A socket that is already
\* destroyed emits neither 'end' nor 'error' any more, so nothing ends the channel.
ForwardOutPiped(c) ==
  /\ c.stream = "requested"
  /\ conns' = (conns \ {c}) \cup {[c EXCEPT !.stream = "open", !.guarded = TRUE]}
  /\ RelayStep("forward-out-ok", Tunnel(c.t), c.c)

\* The client socket emits 'error' (the peer reset the connection) and is destroyed.
\* With the listener attached the channel is destroyed too; without one the event is
\* thrown as an uncaught exception of the process.
SocketError(c) ==
  /\ c.socket = "open"
  /\ conns' = (conns \ {c}) \cup
                {IF c.guarded
                   THEN [c EXCEPT !.socket = "destroyed",
                                  !.stream = IF @ = "open" THEN "destroyed" ELSE @]
                   ELSE [c EXCEPT !.socket = "destroyed", !.uncaught = TRUE]}
  /\ RelayStep("socket-error", Tunnel(c.t), c.c)

\* the channel emits 'error' and is destroyed; its listener destroys the socket
StreamError(c) ==
  /\ c.stream = "open"
  /\ conns' = (conns \ {c}) \cup {[c EXCEPT !.socket = "destroyed", !.stream = "destroyed"]}
  /\ RelayStep("stream-error", Tunnel(c.t), c.c)

RelayNext ==
  \/ \E t \in tunnels : Accept(t)
  \/ \E c \in conns : ForwardOutRefused(c)
  \/ \E c \in conns : ForwardOutPiped(c)
  \/ \E c \in conns : SocketError(c)
  \/ \E c \in conns : StreamError(c)

\* the connections relayed by one running tunnel
RelaySpec == RelayInit /\ [][RelayNext]_vars

\* --------------------------------------------------- starting a service (startService)

\* lines of output of the start command
MaxLines == 2

\* rounds of the warm-up loop
ProbeRounds == 15

\* what follows the "__PID:" prefix of a trimmed line
Tokens == {"4242", "0", "-5", "1.5", "abc", "", " 77", "1e3"}

\* a trimmed line of stdout: it starts with "__PID:" or it does not
Lines == {[sentinel |-> FALSE, text |-> "noise"]}
           \cup {[sentinel |-> TRUE, text |-> t] : t \in Tokens}

Stdouts == UNION {[1..n -> Lines] : n \in 0..MaxLines}

Stderrs == {"", "bash: command not found"}

NaN == [kind |-> "nan", v |-> 0]

Integral(v) == [kind |-> "int", v |-> v]

\* Number(text): surrounding blanks are ignored, the empty text is 0, a decimal or
\* exponent literal is its value, anything else is NaN
NumberOf(text) ==
  CASE text = "4242" -> Integral(4242)
    [] text = "5151" -> Integral(5151)
    [] text = "0" -> Integral(0)
    [] text = "-5" -> Integral(-5)
    [] text = "" -> Integral(0)
    [] text = " 77" -> Integral(77)
    [] text = "1e3" -> Integral(1000)
    [] text = "1.5" -> [kind |-> "fraction", v |-> 1]
    [] OTHER -> NaN

\* lines.find((line) => line.startsWith('__PID:')): the index of the first such line
PidLine(stdout) ==
  IF \E i \in 1..Len(stdout) : stdout[i].sentinel
    THEN CHOOSE i \in 1..Len(stdout) :
           stdout[i].sentinel /\ \A j \in 1..(i - 1) : ~stdout[j].sentinel
    ELSE None

\* Number(pidLine?.replace('__PID:', '')): Number(undefined) is NaN
ParsePid(stdout) ==
  IF PidLine(stdout) = None THEN NaN ELSE NumberOf(stdout[PidLine(stdout)].text)

ValidPidOrZero(n) == n.kind = "int" /\ n.v >= 0

\* Number.isInteger(pid) && pid > 0
ValidPid(n) == n.kind = "int" /\ n.v > 0

\* ret.stdout || '(empty)'
ShownLines(stdout) ==
  IF Len(stdout) = 0 THEN <<[sentinel |-> FALSE, text |-> "(empty)"]>> ELSE stdout

\* ret.stderr || '(empty)'
ShownText(stderr) == IF stderr = "" THEN "(empty)" ELSE stderr

StartFailure(text, stdout, stderr) ==
  [ok |-> FALSE, pid |-> None, log |-> "",
   error |-> [text |-> text, stdout |-> ShownLines(stdout), stderr |-> ShownText(stderr)]]

StartSuccess(pid) ==
  [ok |-> TRUE, pid |-> pid, log |-> "/tmp/service-manager/host_service.log",
   error |-> [text |-> "", stdout |-> <<>>, stderr |-> ""]]

SvcFrame == UNCHANGED <<running, statuses, configs, reconnectTimers, timers, attempts,
                        tunnels, events, emitted, trace, quiet, scenario, lastOp, rejected,
                        deleted, conns, link, app>>

\* startService up to its first return or the first round of the loop: the start
\* command ran with exit status ok and the given output
RunStartCommand(ok, stdout, stderr) ==
  /\ svc.pc = "idle"
  /\ LET pid == ParsePid(stdout)
         call == [ok |-> ok, stdout |-> stdout, stderr |-> stderr, pid |-> pid,
                  cmds |-> 1, i |-> 0]
     IN svc' =
          IF ~ok /\ ~ValidPid(pid)
            THEN call @@
                 [pc |-> "done",
                  result |-> StartFailure("start command failed", stdout, stderr)]
          ELSE IF ~ValidPid(pid)
            THEN call @@
                 [pc |-> "done",
                  result |-> StartFailure("Failed to capture started PID.", stdout, stderr)]
          ELSE call @@ [pc |-> "lsof", result |-> StartSuccess(None)]
  /\ SvcFrame

\* lsof on the service port printed text
ProbePort(text) ==
  /\ svc.pc = "lsof"
  /\ LET pidByPort == NumberOf(text)
     IN svc' = IF ValidPid(pidByPort)
                 THEN [svc EXCEPT !.pc = "done", !.cmds = @ + 1,
                                  !.result = StartSuccess(pidByPort.v)]
                 ELSE [svc EXCEPT !.pc = "alive", !.cmds = @ + 1]
  /\ SvcFrame

\* kill -0 of the captured PID exited with status ok
ProbeAlive(ok) ==
  /\ svc.pc = "alive"
  /\ svc' = IF ok THEN [svc EXCEPT !.pc = "done", !.cmds = @ + 1,
                                   !.result = StartSuccess(svc.pid.v)]
                  ELSE [svc EXCEPT !.pc = "sleep", !.cmds = @ + 1]
  /\ SvcFrame

\* sleep 1, then the next round or the end of the loop
ProbeSleep ==
  /\ svc.pc = "sleep"
  /\ svc' = [svc EXCEPT !.pc = IF svc.i + 1 < ProbeRounds THEN "lsof" ELSE "diagnose",
                        !.i = @ + 1, !.cmds = @ + 1]
  /\ SvcFrame

\* after the loop: tail of the log (twice) and the environment, then the failure
Diagnose(stdout, stderr) ==
  /\ svc.pc = "diagnose"
  /\ svc' = [svc EXCEPT !.pc = "done", !.cmds = @ + 3,
                        !.result = StartFailure(
                           "Process failed to become running within 15s.", stdout, stderr)]
  /\ SvcFrame

ServiceInit == TunnelInit /\ conns = {} /\ svc = NoCall /\ link = NoLink /\ app = NoApp

ServiceNext ==
  \/ \E ok \in BOOLEAN, stdout \in Stdouts, stderr \in Stderrs :
       RunStartCommand(ok, stdout, stderr)
  \/ \E text \in {"", "4242", "5151"} : ProbePort(text)
  \/ \E ok \in BOOLEAN : ProbeAlive(ok)
  \/ ProbeSleep
  \/ \E stdout \in Stdouts, stderr \in Stderrs : Diagnose(stdout, stderr)

\* one call of startService
ServiceSpec == ServiceInit /\ [][ServiceNext]_vars

\* ------------------------------------------ probing a service (checkServiceStatus)

\* exit codes of a remote command: 0, 1 (kill: no such process), another code, and
\* -1 (runSsh settled without a channel close)
ExitCodes == {0, 1, 2, -1}

\* text a remote command printed on stdout
ProbeTexts == {"", "5151\n", " 4242 \n", "abc\n"}

ErrTexts == {"", " Permission denied\n", "SSH command timeout"}

\* the PID of the service descriptor: none, or that of an earlier start
StoredPids == {None, 4242}

\* what runSsh resolves with for a command that ended with the given exit code
SshResults ==
  {[ok |-> code = 0, stdout |-> out, stderr |-> err, code |-> code] :
     code \in ExitCodes, out \in ProbeTexts, err \in ErrTexts}

\* text.trim()
Trim(text) ==
  CASE text = "5151\n" -> "5151"
    [] text = " 4242 \n" -> "4242"
    [] text = "abc\n" -> "abc"
    [] text = " Permission denied\n" -> "Permission denied"
    [] OTHER -> text

StatusResult(status, pid, error) == [status |-> status, pid |-> pid, error |-> error]

AliveVerdictIgnoresCode(pid, ret) ==
  IF ret.ok THEN StatusResult("running", pid, "")
  ELSE StatusResult("error", None,
                    IF Trim(ret.stderr) # "" THEN Trim(ret.stderr) ELSE "status check failed")

\* checkServiceStatus after kill -0 resolved with ret
AliveVerdict(pid, ret) ==
  IF ret.ok THEN StatusResult("running", pid, "")
  ELSE IF ret.code = 1 THEN StatusResult("stopped", None, "")
  ELSE StatusResult("error", None,
                    IF Trim(ret.stderr) # "" THEN Trim(ret.stderr) ELSE "status check failed")

\* checkServiceStatus up to its first return or the kill -0 probe: lsof resolved
\* with ret for a service whose descriptor holds pid
CheckPort(pid, ret) ==
  /\ svc.pc = "idle"
  /\ LET pidByPort == NumberOf(Trim(ret.stdout))
         call == [pid |-> pid, port |-> ret, cmds |-> 1]
     IN svc' =
          IF ValidPid(pidByPort)
            THEN call @@ [pc |-> "done", result |-> StatusResult("running", pidByPort.v, "")]
          ELSE IF pid = None
            THEN call @@ [pc |-> "done", result |-> StatusResult("stopped", None, "")]
          ELSE call @@ [pc |-> "alive", result |-> StatusResult("", None, "")]
  /\ SvcFrame

\* kill -0 of the recorded PID resolved with ret
CheckAlive(ret) ==
  /\ svc.pc = "alive"
  /\ svc' = [pid |-> svc.pid, port |-> svc.port, cmds |-> svc.cmds + 1, alive |-> ret,
             pc |-> "done", result |-> AliveVerdict(svc.pid, ret)]
  /\ SvcFrame

StatusNext ==
  \/ \E pid \in StoredPids, ret \in SshResults : CheckPort(pid, ret)
  \/ \E ret \in SshResults : CheckAlive(ret)

\* one call of checkServiceStatus
StatusSpec == ServiceInit /\ [][StatusNext]_vars

\* -------------------------------------------------- stopping a service (stopService)

\* processes of the remote host: a group of two and a process of its own
RemoteProcs == {[pid |-> 4242, pgid |-> 4242], [pid |-> 4243, pgid |-> 4242],
                [pid |-> 77, pgid |-> 77]}

\* the PID of the descriptor handed to stopService
StopPids == {None, 4242, 4243, 99}

\* how the call of runSsh ended: the channel closed, or the 20 s timer fired first
Transports == {"closed", "timeout"}

\* PGID=$(ps -o pgid= -p <pid> | tr -d " "): the group of the process, or nothing
\* when the process is gone or ps prints nothing
ResolveGroup(pid, procs, psWorks) ==
  IF psWorks /\ \E p \in procs : p.pid = pid
    THEN (CHOOSE p \in procs : p.pid = pid).pgid
    ELSE None

StopCommandPidOnly(pid, procs, psWorks, permitted) ==
  LET hit == {p \in procs : p.pid = pid}
  IN [group |-> FALSE, target |-> pid, hit |-> IF permitted THEN hit ELSE {},
      code |-> IF permitted /\ hit # {} THEN 0 ELSE 1]

\* if [ -n "$PGID" ]; then kill -TERM -"$PGID"; else kill -TERM <pid>; fi
\* the signal sent, the processes it reached and the exit code of kill
StopCommand(pid, procs, psWorks, permitted) ==
  LET pgid == ResolveGroup(pid, procs, psWorks)
      hit == IF pgid # None THEN {p \in procs : p.pgid = pgid}
                            ELSE {p \in procs : p.pid = pid}
  IN [group |-> pgid # None, target |-> IF pgid # None THEN pgid ELSE pid,
      hit |-> IF permitted THEN hit ELSE {},
      code |-> IF permitted /\ hit # {} THEN 0 ELSE 1]

StopResult(ok, error) == [ok |-> ok, error |-> error]

StopVerdictWithoutPid(pid, ret) ==
  IF pid # None /\ ~ret.ok
    THEN StopResult(FALSE, IF Trim(ret.stderr) # "" THEN Trim(ret.stderr)
                                                   ELSE "kill (process group) failed")
  ELSE StopResult(TRUE, "")

\* stopService once runSsh resolved with ret (not reached without a PID)
StopVerdict(pid, ret) ==
  IF pid = None THEN StopResult(FALSE, "PID is empty; cannot stop service.")
  ELSE IF ~ret.ok
    THEN StopResult(FALSE, IF Trim(ret.stderr) # "" THEN Trim(ret.stderr)
                                                   ELSE "kill (process group) failed")
  ELSE StopResult(TRUE, "")

\* what runSsh resolves with when the command ended with code and wrote err
Resolved(transport, code, err) ==
  IF transport = "timeout"
    THEN [ok |-> FALSE, stdout |-> "", stderr |-> IF err # "" THEN err ELSE "SSH command timeout",
          code |-> -1]
    ELSE [ok |-> code = 0, stdout |-> "", stderr |-> err, code |-> code]

\* one call of stopService on a host running procs
StopServiceCall(pid, procs, psWorks, permitted, transport, err) ==
  /\ svc.pc = "idle"
  /\ LET sent == StopCommand(pid, procs, psWorks, permitted)
         ret == Resolved(transport, sent.code, IF sent.code = 0 THEN "" ELSE err)
     IN svc' = [pc |-> "done", pid |-> pid, procs |-> procs, psWorks |-> psWorks,
                cmds |-> IF pid = None THEN 0 ELSE 1,
                sent |-> IF pid = None THEN {} ELSE {[group |-> sent.group, target |-> sent.target]},
                hit |-> IF pid = None THEN {} ELSE sent.hit,
                ret |-> IF pid = None THEN Resolved("closed", 0, "") ELSE ret,
                result |-> StopVerdict(pid, ret)]
  /\ SvcFrame

\* the caller reads the result
StopServiceReturn ==
  /\ svc.pc = "done"
  /\ svc' = NoCall
  /\ SvcFrame

StopNext ==
  \/ \E pid \in StopPids, procs \in SUBSET RemoteProcs, psWorks \in BOOLEAN,
        permitted \in BOOLEAN, transport \in Transports,
        err \in {"", " Permission denied\n"} :
       StopServiceCall(pid, procs, psWorks, permitted, transport, err)
  \/ StopServiceReturn

\* calls of stopService, one after the other
StopSpec == ServiceInit /\ [][StopNext]_vars

\* ------------------------------------------------ reading the logs (getServiceLogs)

\* log paths of a descriptor: "" when none is recorded
LogPaths == {"", "/tmp/service-manager/h_s.log", "/tmp/service-manager/h_s.err"}

\* what tail printed
LogTexts == {"", "listening on 8080\n"}

\* what runSsh resolves with for tail -n 200 <path>
TailResults ==
  {[ok |-> code = 0, stdout |-> out, stderr |-> err, code |-> code] :
     code \in {0, 1}, out \in LogTexts, err \in {"", "tail: cannot open"}}

LogsResult(stdout, stderr) == [stdout |-> stdout, stderr |-> stderr]

NothingRecordedPidOnly(pid, stdoutPath, stderrPath) == pid = None

\* !service.pid || !service.stdoutPath || !service.stderrPath
NothingRecorded(pid, stdoutPath, stderrPath) ==
  pid = None \/ stdoutPath = "" \/ stderrPath = ""

\* ret.stdout || (ret.ok ? '' : ret.stderr)
LogText(ret) ==
  IF ret.stdout # "" THEN ret.stdout ELSE IF ret.ok THEN "" ELSE ret.stderr

\* getServiceLogs up to its first return or the second tail. usable: the host's
\* credentials can be built (buildConnectionConfig does not throw)
LogsCall(pid, stdoutPath, stderrPath, usable, ret) ==
  /\ svc.pc = "idle"
  /\ LET call == [pid |-> pid, stdoutPath |-> stdoutPath, stderrPath |-> stderrPath,
                  usable |-> usable, first |-> ret]
     IN svc' =
          IF NothingRecorded(pid, stdoutPath, stderrPath)
            THEN call @@ [pc |-> "done", cmds |-> 0, threw |-> FALSE,
                          result |-> LogsResult("", "")]
          ELSE IF ~usable
            THEN call @@ [pc |-> "done", cmds |-> 0, threw |-> TRUE,
                          result |-> LogsResult("", "")]
          ELSE IF stdoutPath = stderrPath
            THEN call @@ [pc |-> "done", cmds |-> 1, threw |-> FALSE,
                          result |-> LogsResult(LogText(ret), "")]
          ELSE call @@ [pc |-> "stderr", cmds |-> 1, threw |-> FALSE,
                        result |-> LogsResult("", "")]
  /\ SvcFrame

\* the tail of the stderr file resolved with ret
LogsStderr(ret) ==
  /\ svc.pc = "stderr"
  /\ svc' = [svc EXCEPT !.pc = "done", !.cmds = @ + 1,
                        !.result = LogsResult(LogText(svc.first), LogText(ret))]
  /\ SvcFrame

LogsNext ==
  \/ \E pid \in StoredPids, stdoutPath \in LogPaths, stderrPath \in LogPaths,
        usable \in BOOLEAN, ret \in TailResults :
       LogsCall(pid, stdoutPath, stderrPath, usable, ret)
  \/ \E ret \in TailResults : LogsStderr(ret)

\* one call of getServiceLogs
LogsSpec == ServiceInit /\ [][LogsNext]_vars

\* ---------------------------------------------- running a remote command (runSsh)

\* chunks of output a command delivers before the call settles or its channel closes
MaxChunks == 3

\* how the channel closed: with exit code 0 or 1, or without one (the process was
\* killed by a signal)
CloseCodes == {"0", "1", "none"}

TimeoutMarker == "SSH command timeout"

\* settle(result): the first call ends the session and resolves the promise
Settle(call, by, result) ==
  IF call.settled THEN call
  ELSE [call EXCEPT !.settled = TRUE, !.ended = TRUE, !.resolves = @ + 1, !.by = by,
                    !.result = result]

SshResult(ok, stdout, stderr, code) ==
  [ok |-> ok, stdout |-> stdout, stderr |-> stderr, code |-> code]

\* runSsh is called: the timer is armed, the listeners are attached, connect begins
SshCall ==
  /\ svc.pc = "idle"
  /\ svc' = [pc |-> "connecting", stdout |-> <<>>, stderr |-> <<>>, settled |-> FALSE,
             ended |-> FALSE, resolves |-> 0, timer |-> "armed", by |-> "",
             lost |-> FALSE, result |-> SshResult(FALSE, <<>>, <<>>, 0)]
  /\ SvcFrame

\* 'ready': client.exec(command, callback)
SshReady ==
  /\ svc.pc = "connecting" /\ ~svc.lost /\ ~svc.ended
  /\ svc' = [svc EXCEPT !.pc = "exec"]
  /\ SvcFrame

\* the exec callback with an error: clearTimeout, settle
SshExecError ==
  /\ svc.pc = "exec"
  /\ svc' = [Settle(svc, "exec-error",
                    SshResult(FALSE, svc.stdout, <<"exec failed">>, -1))
               EXCEPT !.pc = "closed", !.timer = IF @ = "armed" THEN "cleared" ELSE @]
  /\ SvcFrame

\* the exec callback with the channel: the stream listeners are attached
SshExecOk ==
  /\ svc.pc = "exec"
  /\ svc' = [svc EXCEPT !.pc = "streaming"]
  /\ SvcFrame

\* 'data' on the channel or on its stderr
SshData(stream) ==
  /\ svc.pc = "streaming"
  /\ Len(svc.stdout) + Len(svc.stderr) < MaxChunks
  /\ svc' = IF stream = "stdout" THEN [svc EXCEPT !.stdout = Append(@, "out")]
                                 ELSE [svc EXCEPT !.stderr = Append(@, "err")]
  /\ SvcFrame

\* 'close' of the channel: ok: (code ?? 0) === 0, code: code ?? 0
SshClose(code) ==
  /\ svc.pc = "streaming"
  /\ LET n == IF code = "1" THEN 1 ELSE 0
     IN svc' = [Settle(svc, "close-" \o code, SshResult(n = 0, svc.stdout, svc.stderr, n))
                  EXCEPT !.pc = "closed", !.timer = IF @ = "armed" THEN "cleared" ELSE @]
  /\ SvcFrame

\* 'error' of the client, before or after ready: stderr is the error's message
SshError ==
  /\ svc.pc \in {"connecting", "exec", "streaming"} /\ ~svc.lost
  /\ svc' = [Settle(svc, "error", SshResult(FALSE, svc.stdout, <<"connection lost">>, -1))
               EXCEPT !.lost = TRUE, !.timer = IF @ = "armed" THEN "cleared" ELSE @]
  /\ SvcFrame

\* the 20 s timer fires: stderr is stderr || 'SSH command timeout'
SshTimeout ==
  /\ svc.pc # "idle" /\ svc.timer = "armed"
  /\ svc' = [Settle(svc, "timeout",
                    SshResult(FALSE, svc.stdout,
                              IF svc.stderr # <<>> THEN svc.stderr ELSE <<TimeoutMarker>>, -1))
               EXCEPT !.timer = "fired"]
  /\ SvcFrame

SshNext ==
  \/ SshCall
  \/ SshReady
  \/ SshExecError
  \/ SshExecOk
  \/ \E stream \in {"stdout", "stderr"} : SshData(stream)
  \/ \E code \in CloseCodes : SshClose(code)
  \/ SshError
  \/ SshTimeout

\* one call of runSsh
SshSpec == ServiceInit /\ [][SshNext]_vars

\* ------------------------------------------ waiting for a session (connectClient)

\* events one client emits while and after connecting
MaxClientEvents == 4

\* messages of the 'error' events of a client
ClientErrors == {"ECONNREFUSED", "All configured authentication methods failed"}

ClosedBeforeReady == "SSH connection closed before ready."

\* cleanup(): the three listeners of connectClient are removed
ConnectCleanup(l) == [l EXCEPT !.listening = FALSE]

\* onReady
OnConnectReady(l) ==
  IF l.settled THEN l
  ELSE [ConnectCleanup(l) EXCEPT !.settled = TRUE, !.resolves = @ + 1]

\* onError
OnConnectError(l, message) ==
  IF l.settled THEN l
  ELSE [ConnectCleanup(l) EXCEPT !.settled = TRUE, !.rejects = @ + 1, !.err = message]

OnConnectCloseIgnored(l) == l

\* onClose
OnConnectClose(l) ==
  IF l.settled THEN l
  ELSE [ConnectCleanup(l) EXCEPT !.settled = TRUE, !.rejects = @ + 1, !.err = ClosedBeforeReady]

\* connectClient(client, config) of the manager of the given kind: the promise is
\* pending, the listeners are attached, client.connect is called
ConnectBegin(kind) ==
  /\ LinkFrame
  /\ link.pc = "idle"
  /\ link' = [pc |-> "connecting", kind |-> kind, listening |-> TRUE, settled |-> FALSE,
              resolves |-> 0, rejects |-> 0, err |-> "", seen |-> <<>>]

\* the client emits 'ready'
SessionReady ==
  /\ LinkFrame
  /\ link.pc = "connecting"
  /\ Len(link.seen) < MaxClientEvents
  /\ link' = [(IF link.listening THEN OnConnectReady(link) ELSE link)
                EXCEPT !.pc = "ready", !.seen = Append(@, "ready")]

\* the client emits 'error', before or after ready
SessionError(message) ==
  /\ LinkFrame
  /\ link.pc \in {"connecting", "ready"}
  /\ Len(link.seen) < MaxClientEvents
  /\ link' = [(IF link.listening THEN OnConnectError(link, message) ELSE link)
                EXCEPT !.seen = Append(@, "error")]

\* the client emits 'close': its last event
SessionClose ==
  /\ LinkFrame
  /\ link.pc \in {"connecting", "ready"}
  /\ Len(link.seen) < MaxClientEvents
  /\ link' = [(IF link.listening THEN OnConnectClose(link) ELSE link)
                EXCEPT !.pc = "closed", !.seen = Append(@, "close")]

ConnectNext ==
  \/ \E kind \in LinkKinds : ConnectBegin(kind)
  \/ SessionReady
  \/ \E message \in ClientErrors : SessionError(message)
  \/ SessionClose

\* one call of connectClient and the events of its client
ConnectSpec == ServiceInit /\ [][ConnectNext]_vars

\* ------------------------------------------- the service handlers of the main process

\* IPC handler invocations in flight at the same time
MaxCalls == 2

Calls == 1..MaxCalls

\* the local port of the service's forward, when one is configured
ForwardPort == 8080

Transitional == {"starting", "stopping"}

\* a service descriptor: pid and forwardLocalPort are None when unset, logs says
\* whether stdoutPath/stderrPath are recorded
Descriptor(pid, fwd, logs) == [pid |-> pid, fwd |-> fwd, logs |-> logs]

NoResult == [status |-> "", pid |-> None]

\* a free slot of the handler table
NoHandler == [kind |-> "none", pc |-> "", local |-> Descriptor(None, None, FALSE),
              cur |-> FALSE, res |-> NoResult, noop |-> FALSE]


\* getForwardStatus / toView: the forwardState shown for the stored service
ViewForwardState(a) == IF a.store.fwd # None THEN a.fstate ELSE "none"

\* emitStatus: the payload takes forwardState from runtimeForwardStatus, is stored in
\* runtimeStatus and is sent to every window; out collects the forwardState of the
\* payloads sent in the step, and status is the status and pid of the last one
EmitStatus(a, status, pid) ==
  [a EXCEPT !.status = [status |-> status, pid |-> pid],
            !.out = @ \cup {a.fstate}]

\* emitForwardStatus: sets runtimeForwardStatus and re-emits the current status
EmitForwardStatus(a, state) ==
  EmitStatus([a EXCEPT !.fstate = state],
             IF a.status.status = "" THEN "unknown" ELSE a.status.status,
             a.status.pid)

UpsertHostSkipped(a, local) == a

\* ServiceStore.upsertHost with a handler's copy of the host: the stored host is
\* replaced by the copy
UpsertHost(a, local) == [a EXCEPT !.store = local]

\* PortForwardManager.stop up to its first await: the running entry is deleted
ForwardStop(a) == [a EXCEPT !.pf = None]

\* the handler of slot n moves on / ends
Goto(a, n, pc) == [a EXCEPT !.calls[n].pc = pc]

Return(a, n) ==
  [a EXCEPT !.calls[n] = NoHandler,
            !.fin = "returned",
            !.ended = a.calls[n].kind]

Throw(a, n) ==
  [a EXCEPT !.calls[n] = NoHandler,
            !.fin = "threw",
            !.ended = a.calls[n].kind]

\* a step begins: nothing broadcast yet, no handler ended yet (ended is the kind of
\* the handler the step ended and fin tells how it ended: "returned", "threw", or ""
\* when the handler of the step is still in flight); ran counts the remote commands
\* the stopService call that resolved in the step has run
Step(a, name, n) == [a EXCEPT !.out = {}, !.fin = "", !.ended = "none", !.ran = 0]

AppFrame == UNCHANGED <<tunnelVars, conns, svc, link>>

\* the results checkServiceStatus can return for a descriptor with the given PID
CheckResultsOf ==
  [pid \in StoredPids \cup {5151} |->
     {[status |-> r.status, pid |-> r.pid] :
        r \in {IF ValidPid(NumberOf(Trim(port.stdout)))
                 THEN StatusResult("running", NumberOf(Trim(port.stdout)).v, "")
               ELSE IF pid = None THEN StatusResult("stopped", None, "")
               ELSE AliveVerdict(pid, alive) :
               port \in {p \in SshResults : p.code = 0 /\ p.stderr = ""},
               alive \in {p \in SshResults : p.stdout = ""}}}]

CheckResults(pid) == CheckResultsOf[pid]

\* the results stopService can return for a descriptor with the given PID
StopResultsOf ==
  [pid \in StoredPids \cup {5151} |->
     {StopVerdict(pid, ret) : ret \in {Resolved("closed", 0, ""),
                                       Resolved("closed", 1, " Permission denied\n"),
                                       Resolved("timeout", 0, "")}}]

StopResults(pid) == StopResultsOf[pid]

\* the results startService can return: the captured PID, or failure
StartResults == {[ok |-> TRUE, pid |-> 4242], [ok |-> FALSE, pid |-> None]}

\* app.whenReady: the store is loaded with one host and one service, never started
AppInit ==
  \E usable \in BOOLEAN :
    app = [pc |-> "on", usable |-> usable,
           store |-> Descriptor(None, None, FALSE),
           status |-> NoResult, fstate |-> "none", pf |-> None,
           out |-> {}, fin |-> "", ended |-> "none", ran |-> 0, halted |-> "no",
           calls |-> [n \in Calls |-> NoHandler]]

HandlerInit == TunnelInit /\ conns = {} /\ svc = NoCall /\ link = NoLink /\ AppInit

\* getStatus: the status the renderer shows for the service, the last one broadcast
\* or, before any broadcast, running or stopped by whether a PID is stored
ShownStatus(a) ==
  IF a.status.status # "" THEN a.status.status
  ELSE IF a.store.pid # None THEN "running" ELSE "stopped"

\* the start and stop buttons of the service row are enabled
canStartService(status) == status \in {"stopped", "error"}

canStopService(status) == status \in {"running", "starting"}

\* halted follows a stop: "killed" once stopService has succeeded, "stopped" once
\* that handler has returned; a start request or a probe launched later (which sees
\* the remote host as it is after the kill) sets it back to "no"
Unhalt(a) == [a EXCEPT !.halted = "no"]

Killed(a) == [a EXCEPT !.halted = "killed"]

Halt(a) == [a EXCEPT !.halted = IF a.halted = "killed" THEN "stopped" ELSE "no"]

\* the slot a new invocation takes
FreeSlot(a) == CHOOSE n \in Calls : a.calls[n].kind = "none" /\ \A k \in 1..(n - 1) : a.calls[k].kind # "none"

HasFreeSlot(a) == \E n \in Calls : a.calls[n].kind = "none"

\* a handler begins: getStore().findHostById returns a copy of the stored host
Begin(a, n, kind, pc) ==
  [a EXCEPT !.calls[n] = [NoHandler EXCEPT !.kind = kind, !.pc = pc, !.local = a.store,
                                          !.cur = (a.status.status = "starting")]]

\* refreshService / startService handler, once the PID of the copy is settled: the
\* port forward is started for a running service with a forward port (the call
\* returns at once when the forward already runs on that port); the rest of the
\* handler runs at once otherwise
StoppedStage(a, n) ==
  LET c == a.calls[n]
  IN IF c.res.status = "stopped" /\ c.local.pid # None
       THEN Goto(ForwardStop(a), n, "unforwarding")
       ELSE Return(EmitStatus(a, c.res.status, c.res.pid), n)

ForwardStage(a, n) ==
  LET c == a.calls[n]
  IN IF c.res.status = "running" /\ c.local.fwd # None
       THEN [a EXCEPT !.calls[n].pc = "forwarding", !.calls[n].noop = (a.pf = c.local.fwd)]
       ELSE LET b == IF c.local.fwd = None THEN EmitForwardStatus(a, "none") ELSE a
            IN IF c.kind = "start" THEN Return(EmitStatus(b, c.res.status, c.local.pid), n)
                                   ELSE StoppedStage(b, n)

\* the start button is pressed: startService handler up to await startService(host,
\* service)
StartRequest ==
  /\ HasFreeSlot(app)
  /\ canStartService(ShownStatus(app))
  /\ LET n == FreeSlot(app)
         a == Begin(Step(app, "start", n), n, "start", "starting")
     IN app' = Unhalt(EmitStatus(a, "starting", None))
  /\ AppFrame

\* startService resolved with ret (or threw: the credentials cannot be built): on
\* success the copy gets pid and log paths and is stored (saved: persist succeeded)
StartStarted(n, ret, saved) ==
  /\ app.calls[n].kind = "start" /\ app.calls[n].pc = "starting"
  /\ LET a == Step(app, "start-started", n)
         local == [a.calls[n].local EXCEPT !.pid = ret.pid, !.logs = TRUE]
     IN app' =
          IF ~a.usable THEN Throw(a, n)
          ELSE IF ~ret.ok THEN Return(EmitStatus(a, "error", None), n)
          ELSE LET b == UpsertHost([a EXCEPT !.calls[n].local = local], local)
               IN IF saved THEN Unhalt(Goto(b, n, "checking")) ELSE Throw(b, n)
  /\ AppFrame

\* checkServiceStatus resolved with res: a different PID is taken over and stored
StartChecked(n, res, saved) ==
  /\ app.calls[n].kind = "start" /\ app.calls[n].pc = "checking"
  /\ res \in CheckResults(app.calls[n].local.pid)
  /\ LET a == [Step(app, "start-checked", n) EXCEPT !.calls[n].res = res]
         local == [a.calls[n].local EXCEPT !.pid = res.pid]
     IN app' =
          IF res.pid # None /\ res.pid # a.calls[n].local.pid
            THEN LET b == UpsertHost([a EXCEPT !.calls[n].local = local], local)
                 IN IF saved THEN Goto(b, n, "saved") ELSE Throw(b, n)
            ELSE ForwardStage(a, n)
  /\ AppFrame

\* the second upsertHost of a handler resolved
HandlerSaved(n) ==
  /\ app.calls[n].kind \in {"start", "refresh"} /\ app.calls[n].pc = "saved"
  /\ app' = ForwardStage(Step(app, "saved", n), n)
  /\ AppFrame

\* portForwardManager.start resolved (ok) or rejected: the forward state is emitted,
\* then the status
HandlerForwarded(n, ok) ==
  /\ app.calls[n].kind \in {"start", "refresh"} /\ app.calls[n].pc = "forwarding"
  /\ LET a == Step(app, "forwarded", n)
         c == a.calls[n]
         b == IF c.noop THEN EmitForwardStatus(a, "ok")
              ELSE IF ok THEN EmitForwardStatus([a EXCEPT !.pf = c.local.fwd], "ok")
              ELSE EmitForwardStatus(a, "error")
     IN app' = IF c.kind = "start" THEN Return(EmitStatus(b, c.res.status, c.local.pid), n)
                                   ELSE StoppedStage(b, n)
  /\ AppFrame

\* refreshAllServices reaches the service (one run at a time, and it skips a service
\* shown starting or stopping) and invokes refreshService; the invocation is on its
\* way to the main process
RefreshRequest ==
  /\ HasFreeSlot(app)
  /\ \A k \in Calls : app.calls[k].kind # "refresh"
  /\ ShownStatus(app) \notin Transitional
  /\ LET n == FreeSlot(app)
         a == Step(app, "refresh", n)
     IN app' = [a EXCEPT !.calls[n] = [NoHandler EXCEPT !.kind = "refresh", !.pc = "sent"]]
  /\ AppFrame

\* refreshService handler up to await checkServiceStatus: the copy of the host and
\* currentState are read
RefreshBegin(n) ==
  /\ app.calls[n].kind = "refresh" /\ app.calls[n].pc = "sent"
  /\ app' = Unhalt(Begin(Step(app, "refresh-begin", n), n, "refresh", "checking"))
  /\ AppFrame

StartingWindowNever(c, res) == FALSE

\* the "starting" window: the status was starting when the handler began and the
\* probe reports stopped
StartingWindow(c, res) == c.cur /\ res.status = "stopped"

\* checkServiceStatus resolved with res, or threw
RefreshChecked(n, res, saved) ==
  /\ app.calls[n].kind = "refresh" /\ app.calls[n].pc = "checking"
  /\ res \in CheckResults(app.calls[n].local.pid)
  /\ LET a == [Step(app, "refresh-checked", n) EXCEPT !.calls[n].res = res]
         c == a.calls[n]
         local == [c.local EXCEPT !.pid = res.pid]
     IN app' =
          IF ~a.usable THEN Throw(a, n)
          ELSE IF StartingWindow(c, res)
            THEN Return(EmitStatus(a, "starting", c.local.pid), n)
          ELSE IF res.status = "running" /\ res.pid # None /\ res.pid # c.local.pid
            THEN LET b == UpsertHost([a EXCEPT !.calls[n].local = local], local)
                 IN IF saved THEN Goto(b, n, "saved") ELSE Throw(b, n)
          ELSE ForwardStage(a, n)
  /\ AppFrame

\* portForwardManager.stop resolved: forward state none, the PID is dropped and the
\* copy stored
HandlerUnforwarded(n, saved) ==
  /\ app.calls[n].kind \in {"refresh", "stop"} /\ app.calls[n].pc = "unforwarding"
  /\ LET a == EmitForwardStatus(Step(app, "unforwarded", n), "none")
         local == [a.calls[n].local EXCEPT !.pid = None]
         b == UpsertHost([a EXCEPT !.calls[n].local = local], local)
     IN app' = IF saved THEN Goto(b, n, "dropped") ELSE Throw(b, n)
  /\ AppFrame

\* the upsertHost after the PID was dropped resolved: the final status is emitted
HandlerDropped(n) ==
  /\ app.calls[n].kind \in {"refresh", "stop"} /\ app.calls[n].pc = "dropped"
  /\ LET a == Step(app, "dropped", n)
         c == a.calls[n]
     IN app' = IF c.kind = "stop" THEN Halt(Return(EmitStatus(a, "stopped", None), n))
                                  ELSE Return(EmitStatus(a, c.res.status, c.res.pid), n)
  /\ AppFrame

\* the stop button is pressed: stopService handler up to await stopService(host,
\* service)
StopRequest ==
  /\ HasFreeSlot(app)
  /\ canStopService(ShownStatus(app))
  /\ LET n == FreeSlot(app)
         a == Begin(Step(app, "stop", n), n, "stop", "stopping")
     IN app' = EmitStatus(a, "stopping", a.calls[n].local.pid)
  /\ AppFrame

\* stopService resolved with ret, or threw; it ran its one command when the copy has
\* a PID and the connection could be configured
StopStopped(n, ret) ==
  /\ app.calls[n].kind = "stop" /\ app.calls[n].pc = "stopping"
  /\ ret \in StopResults(app.calls[n].local.pid)
  /\ LET c == app.calls[n]
         a == [Step(app, "stop-stopped", n)
                 EXCEPT !.ran = IF c.local.pid # None /\ app.usable THEN 1 ELSE 0]
     IN app' =
          IF c.local.pid # None /\ ~a.usable THEN Throw(a, n)
          ELSE IF ~ret.ok THEN Return(EmitStatus(a, "error", c.local.pid), n)
          ELSE Killed(Goto(ForwardStop(a), n, "unforwarding"))
  /\ AppFrame

\* saveHost handler for an edit of the host, up to the await of stopMany: the draft
\* sets or unsets the forward port; validateServiceDraft resets pid and log paths
SaveRequest(fwd) ==
  /\ HasFreeSlot(app)
  /\ LET n == FreeSlot(app)
         a == Begin(Step(app, "save", n), n, "save", "clearing")
     IN app' = ForwardStop([a EXCEPT !.calls[n].local = Descriptor(None, fwd, FALSE)])
  /\ AppFrame

\* the forwards of the previous host are stopped: forward state none for its
\* services, then upsertHost(host)
SaveCleared(n, saved) ==
  /\ app.calls[n].kind = "save" /\ app.calls[n].pc = "clearing"
  /\ LET a == EmitForwardStatus(Step(app, "save-cleared", n), "none")
         b == UpsertHost(a, a.calls[n].local)
     IN app' = IF saved THEN Goto(b, n, "stored") ELSE Throw(b, n)
  /\ AppFrame

\* after upsertHost and autoStartHostRules: the service has no PID, so forward state
\* none, then the second upsertHost; the view is returned
SaveStored(n, saved) ==
  /\ app.calls[n].kind = "save" /\ app.calls[n].pc = "stored"
  /\ LET a == EmitForwardStatus(Step(app, "save-stored", n), "none")
         b == UpsertHost(a, a.calls[n].local)
     IN app' = IF saved THEN Return(b, n) ELSE Throw(b, n)
  /\ AppFrame

\* the SSH session or the listener of the service's forward drops: onClose calls
\* stop(id), which deletes the running entry; nothing is reported to the main process
ForwardDropped ==
  /\ app.pc = "on"
  /\ app.pf # None
  /\ app' = ForwardStop(Step(app, "forward-dropped", 0))
  /\ AppFrame

\* the handler of slot n goes on after an await
CallStep(n) ==
  \/ \E ret \in StartResults, saved \in BOOLEAN : StartStarted(n, ret, saved)
  \/ \E res \in UNION {CheckResults(pid) : pid \in DOMAIN CheckResultsOf},
          saved \in BOOLEAN :
       StartChecked(n, res, saved)
  \/ HandlerSaved(n)
  \/ \E ok \in BOOLEAN : HandlerForwarded(n, ok)
  \/ RefreshBegin(n)
  \/ \E res \in UNION {CheckResults(pid) : pid \in DOMAIN CheckResultsOf},
          saved \in BOOLEAN :
       RefreshChecked(n, res, saved)
  \/ \E saved \in BOOLEAN : HandlerUnforwarded(n, saved)
  \/ HandlerDropped(n)
  \/ \E ret \in UNION {StopResults(pid) : pid \in DOMAIN StopResultsOf} :
       StopStopped(n, ret)
  \/ \E saved \in BOOLEAN : SaveCleared(n, saved)
  \/ \E saved \in BOOLEAN : SaveStored(n, saved)

HandlerStep == \E n \in Calls : CallStep(n)

HandlerNext ==
  \/ StartRequest
  \/ RefreshRequest
  \/ StopRequest
  \/ \E fwd \in {None, ForwardPort} : SaveRequest(fwd)
  \/ ForwardDropped
  \/ HandlerStep

\* the handlers of one service, interleaved at their awaits
HandlerSpec == HandlerInit /\ [][HandlerNext]_vars

\* the same, where every handler in flight goes on and the renderer keeps refreshing
HandlerLiveSpec ==
  /\ HandlerInit
  /\ [][HandlerNext]_vars
  /\ \A n \in Calls : WF_vars(CallStep(n))
  /\ WF_vars(RefreshRequest)

\* ------------------------------------------- the services of one host and the store

\* the services of the host
Services == {"web", "db"}

\* the PIDs recorded for the services of a host copy
HostPids == [Services -> {None, 4242}]

NoHostCall == [kind |-> "none", svc |-> "", pc |-> "", local |-> [s \in Services |-> None]]

\* app.whenReady: the store is loaded with one host, whose services may have a PID
\* recorded by an earlier run; last is the PID the last handler of each service wrote
HostInit ==
  /\ TunnelInit /\ conns = {} /\ svc = NoCall /\ link = NoLink
  /\ \E pids \in HostPids :
       app = [pc |-> "host", store |-> pids, last |-> pids, actor |-> "",
              calls |-> [n \in Calls |-> NoHostCall]]

\* a handler for service s begins: findHostById returns a copy of the whole host
HostBegin(s, kind, pc) ==
  /\ \E n \in Calls : app.calls[n].kind = "none"
  /\ LET n == CHOOSE k \in Calls : app.calls[k].kind = "none"
     IN app' = [app EXCEPT !.actor = s,
                           !.calls[n] = [kind |-> kind, svc |-> s, pc |-> pc,
                                         local |-> app.store]]
  /\ AppFrame

\* the handler of slot n sets the PID of its service in its copy and calls
\* upsertHost(host), which replaces the stored host by the copy; it goes on to pc,
\* or throws when persist fails
HostWrite(n, pid, pc, saved) ==
  LET c == app.calls[n]
      local == [c.local EXCEPT ![c.svc] = pid]
  IN [app EXCEPT !.actor = c.svc,
                 !.store = local,
                 !.last[c.svc] = pid,
                 !.calls[n] = IF saved /\ pc # "" THEN [c EXCEPT !.local = local, !.pc = pc]
                                                  ELSE NoHostCall]

\* the handler of slot n ends without a write
HostEnd(n) == [app EXCEPT !.actor = app.calls[n].svc, !.calls[n] = NoHostCall]

HostGoto(n, pc) == [app EXCEPT !.actor = app.calls[n].svc, !.calls[n].pc = pc]

\* startService handler after startService resolved: pid and log paths are written
\* back
HostStarted(n, ret, saved) ==
  /\ app.calls[n].kind = "start" /\ app.calls[n].pc = "starting"
  /\ app' = IF ret.ok THEN HostWrite(n, ret.pid, "checking", saved) ELSE HostEnd(n)
  /\ AppFrame

\* startService / refreshService handler after checkServiceStatus resolved: a
\* different PID is written back; refreshService drops the PID of a stopped service
\* after portForwardManager.stop
HostChecked(n, res, saved) ==
  /\ app.calls[n].kind \in {"start", "refresh"} /\ app.calls[n].pc = "checking"
  /\ LET c == app.calls[n]
     IN /\ res \in CheckResults(c.local[c.svc])
        /\ app' =
             IF (c.kind = "start" \/ res.status = "running")
                /\ res.pid # None /\ res.pid # c.local[c.svc]
               THEN HostWrite(n, res.pid, "", saved)
             ELSE IF c.kind = "refresh" /\ res.status = "stopped" /\ c.local[c.svc] # None
               THEN HostGoto(n, "unforwarding")
             ELSE HostEnd(n)
  /\ AppFrame

\* stopService handler after stopService resolved
HostStopped(n, ret) ==
  /\ app.calls[n].kind = "stop" /\ app.calls[n].pc = "stopping"
  /\ LET c == app.calls[n]
     IN /\ ret \in StopResults(c.local[c.svc])
        /\ app' = IF ret.ok THEN HostGoto(n, "unforwarding") ELSE HostEnd(n)
  /\ AppFrame

\* after portForwardManager.stop: service.pid = undefined, upsertHost(host)
HostUnforwarded(n, saved) ==
  /\ app.calls[n].kind \in {"refresh", "stop"} /\ app.calls[n].pc = "unforwarding"
  /\ app' = HostWrite(n, None, "", saved)
  /\ AppFrame

\* the handler of slot n goes on after an await
HostStep(n) ==
  \/ \E ret \in StartResults, saved \in BOOLEAN : HostStarted(n, ret, saved)
  \/ \E res \in UNION {CheckResults(pid) : pid \in DOMAIN CheckResultsOf},
        saved \in BOOLEAN :
       HostChecked(n, res, saved)
  \/ \E ret \in UNION {StopResults(pid) : pid \in DOMAIN StopResultsOf} : HostStopped(n, ret)
  \/ \E saved \in BOOLEAN : HostUnforwarded(n, saved)

HostNext ==
  \/ \E s \in Services : HostBegin(s, "start", "starting")
  \/ \E s \in Services : HostBegin(s, "refresh", "checking")
  \/ \E s \in Services : HostBegin(s, "stop", "stopping")
  \/ \E n \in Calls : HostStep(n)

\* the handlers of the services of one host, interleaved at their awaits
HostSpec == HostInit /\ [][HostNext]_vars

\* ==================================== the port forward of one service (PortForwardManager)
\* One forward key.  A forward object is the SSH session (with its optional jump
\* session) and the local listener that one call of start creates; app.running is the
\* entry of the running table, app.calls the calls of start in flight.

MaxForwards == 3
MaxSockets == 1
Forwards == 1..MaxForwards
ForwardPorts == {ForwardPort, ForwardPort + 1}

NoForward ==
  [port |-> None, jump |-> "none", client |-> "none", server |-> "none",
   socks |-> 0, reg |-> FALSE, stop |-> "no"]

NoPfCall == [pc |-> "none", h |-> None, wait |-> None, port |-> None, jump |-> FALSE]

PfInit ==
  /\ TunnelInit /\ conns = {} /\ svc = NoCall /\ link = NoLink
  /\ app = [pc |-> "pf", running |-> None,
            fwd |-> [h \in Forwards |-> NoForward],
            calls |-> [n \in Calls |-> NoPfCall]]

HasFreeForward == \E h \in Forwards : app.fwd[h] = NoForward

FreeForward == CHOOSE h \in Forwards : app.fwd[h] = NoForward /\ \A g \in 1..(h - 1) : app.fwd[g] # NoForward

\* stop(id) up to its await: the entry is deleted and server.close is called
PfStopOf(a) ==
  IF a.running = None
    THEN a
    ELSE [a EXCEPT !.running = None,
                   !.fwd[a.running].server = "closing",
                   !.fwd[a.running].stop = "waiting"]

\* the handlers attached by start: a close or error stops whatever the key holds
PfOnClose(a) == PfStopOf(a)

FirstStep(jump) == IF jump THEN "jump" ELSE "connect"

\* start(id, host, service) up to its first await
PfStart(n, port, jump) ==
  /\ app.pc = "pf" /\ app.calls[n].pc = "none"
  /\ IF port = None \/ (app.running # None /\ app.fwd[app.running].port = port)
       THEN app' = app
       ELSE /\ HasFreeForward
            /\ LET h == FreeForward
                   a == [app EXCEPT !.fwd[h].port = port]
               IN  app' = IF app.running # None
                            THEN [PfStopOf(a) EXCEPT !.calls[n] =
                                    [pc |-> "stopping-old", h |-> h, wait |-> app.running,
                                     port |-> port, jump |-> jump]]
                            ELSE [a EXCEPT !.calls[n] =
                                    [pc |-> FirstStep(jump), h |-> h, wait |-> None,
                                     port |-> port, jump |-> jump]]
  /\ AppFrame

\* stop(id) called by a handler
PfStop ==
  /\ app.pc = "pf"
  /\ app' = PfStopOf(app)
  /\ AppFrame

\* the callback of server.close: every relayed connection has ended; stop goes on to
\* end the sessions
PfStopped(h) ==
  /\ app.pc = "pf" /\ app.fwd[h].stop = "waiting" /\ app.fwd[h].socks = 0
  /\ app' = [app EXCEPT !.fwd[h].server = "closed",
                        !.fwd[h].stop = "done",
                        !.fwd[h].client = IF @ = "open" THEN "ending" ELSE @,
                        !.fwd[h].jump = IF @ = "open" THEN "ending" ELSE @]
  /\ AppFrame

\* the close events of the sessions that stop ended
PfClosed(h) ==
  /\ app.pc = "pf"
  /\ app.fwd[h].client = "ending" \/ app.fwd[h].jump = "ending"
  /\ app' = PfOnClose([app EXCEPT !.fwd[h].client = IF @ = "ending" THEN "ended" ELSE @,
                                  !.fwd[h].jump = IF @ = "ending" THEN "ended" ELSE @])
  /\ AppFrame

\* start goes on after the stop of the old forward
PfResume(n) ==
  /\ app.pc = "pf" /\ app.calls[n].pc = "stopping-old"
  /\ app.fwd[app.calls[n].wait].stop = "done"
  /\ app' = [app EXCEPT !.calls[n].pc = FirstStep(app.calls[n].jump), !.calls[n].wait = None]
  /\ AppFrame

\* connectClient(jumpClient) settles
PfJump(n, ok) ==
  /\ app.pc = "pf" /\ app.calls[n].pc = "jump"
  /\ LET h == app.calls[n].h
     IN  app' = IF ok
                  THEN [app EXCEPT !.fwd[h].jump = "open", !.calls[n].pc = "jumpout"]
                  ELSE [app EXCEPT !.fwd[h].jump = "ended", !.calls[n] = NoPfCall]
  /\ AppFrame

\* jumpClient.forwardOut settles
PfForwardOut(n, ok) ==
  /\ app.pc = "pf" /\ app.calls[n].pc = "jumpout"
  /\ app' = IF ok
              THEN [app EXCEPT !.calls[n].pc = "connect"]
              ELSE [app EXCEPT !.calls[n] = NoPfCall]
  /\ AppFrame

\* connectClient(client) settles
PfConnect(n, ok) ==
  /\ app.pc = "pf" /\ app.calls[n].pc = "connect"
  /\ LET h == app.calls[n].h
     IN  app' = IF ok
                  THEN [app EXCEPT !.fwd[h].client = "open", !.calls[n].pc = "listen"]
                  ELSE [app EXCEPT !.fwd[h].client = "ended", !.calls[n] = NoPfCall]
  /\ AppFrame

LocalPortFree(port) == \A g \in Forwards : ~(app.fwd[g].server = "listening" /\ app.fwd[g].port = port)

\* server.listen settles; on success the handlers are attached and the entry is set
PfListen(n, ok) ==
  /\ app.pc = "pf" /\ app.calls[n].pc = "listen"
  /\ ok => LocalPortFree(app.calls[n].port)
  /\ LET h == app.calls[n].h
     IN  app' = IF ok
                  THEN [app EXCEPT !.fwd[h].server = "listening", !.fwd[h].reg = TRUE,
                                   !.running = h, !.calls[n] = NoPfCall]
                  ELSE [app EXCEPT !.fwd[h].server = "closed", !.calls[n] = NoPfCall]
  /\ AppFrame

\* a local client connects and is relayed
PfAccept(h) ==
  /\ app.pc = "pf"
  /\ app.fwd[h].server = "listening" /\ app.fwd[h].client = "open"
  /\ app.fwd[h].socks < MaxSockets
  /\ app' = [app EXCEPT !.fwd[h].socks = @ + 1]
  /\ AppFrame

\* the local client closes its connection
PfSocketClose(h) ==
  /\ app.pc = "pf" /\ app.fwd[h].socks > 0
  /\ app' = [app EXCEPT !.fwd[h].socks = @ - 1]
  /\ AppFrame

\* the network closes a session of a forward whose handlers are attached
PfSessionDrop(h, which) ==
  /\ app.pc = "pf" /\ app.fwd[h].reg
  /\ IF which = "jump" THEN app.fwd[h].jump = "open" ELSE app.fwd[h].client = "open"
  /\ app' = PfOnClose([app EXCEPT !.fwd[h].client = IF @ = "open" THEN "ended" ELSE @,
                                  !.fwd[h].jump = IF which = "jump" THEN "ended" ELSE @])
  /\ AppFrame

PfStep(n) ==
  \/ PfResume(n)
  \/ \E ok \in BOOLEAN : PfJump(n, ok)
  \/ \E ok \in BOOLEAN : PfForwardOut(n, ok)
  \/ \E ok \in BOOLEAN : PfConnect(n, ok)
  \/ \E ok \in BOOLEAN : PfListen(n, ok)

PfNext ==
  \/ \E n \in Calls, port \in ForwardPorts \cup {None}, jump \in BOOLEAN : PfStart(n, port, jump)
  \/ PfStop
  \/ \E n \in Calls : PfStep(n)
  \/ \E h \in Forwards : PfStopped(h)
  \/ \E h \in Forwards : PfClosed(h)
  \/ \E h \in Forwards : PfAccept(h)
  \/ \E h \in Forwards : PfSocketClose(h)
  \/ \E h \in Forwards, which \in {"target", "jump"} : PfSessionDrop(h, which)

PfSpec == PfInit /\ [][PfNext]_vars

\* the steps of the manager and of the sessions it talks to settle; nothing makes a
\* local client close its connection
PfLiveSpec ==
  /\ PfInit
  /\ [][PfNext]_vars
  /\ \A n \in Calls : WF_vars(PfStep(n))
  /\ \A h \in Forwards : WF_vars(PfStopped(h)) /\ WF_vars(PfClosed(h))

\* ------------------------------------------------------------------- claims

TimersOf(id) == {t \in timers : t.id = id}
\* the {listener, session} pairs of id that were opened and are not closed
OpenPairs(id) == {t \in tunnels : t.id = id /\ t.server /\ t.client = "open"}
\* the statuses of the events the step emitted for id, oldest first
NewStatuses(id) ==
  [i \in 1..emitted'[id] |-> events'[id][Len(events'[id]) - emitted'[id] + i].status]
ClosedMessage == Msg("SSH connection closed unexpectedly.", "", None, "")

\* C1: for every rule id at most one {local listener, SSH session} pair that has been
\* opened and not yet closed exists, in every interleaving of start, stop, timers and
\* failures.
C1_AtMostOnePair == \A id \in Ids : Cardinality(OpenPairs(id)) <= 1

\* C2: once stop(id) was called while a start(id) was in flight, and until start(id)
\* is called again, the completion of that start is discarded: the id gets no entry
\* in the running table and its status does not become running.
C2_StopDiscardsStart ==
  \A id \in Ids : quiet[id] => running[id] = None /\ statuses[id].status # "running"

\* C3: after stop(id) returned, and until start(id) is called again, no reconnect
\* timer is pending for id and no status event is emitted for id (other than by a
\* further stop).
C3_SilentAfterStop ==
  [][\A id \in Ids :
       quiet[id] /\ quiet'[id] /\ lastOp'.op \notin {"stop", "stopAll", "delete"}
         => emitted'[id] = 0 /\ reconnectTimers'[id] = None /\ TimersOf(id)' = {}]_vars

\* a step in which start(config) is called for an id that is in the running table
StartOnRunning(id) == lastOp'.op = "start" /\ lastOp'.id = id /\ running[id] # None

ScenarioCount(s) == IF s = "s1" THEN 1 ELSE IF s = "s2" THEN 2 ELSE IF s = "s3" THEN 3 ELSE 0
C5_BindFailureSequence ==
  \A id \in Ids :
    scenario[id] \in {"s1", "s2", "s3"} =>
      /\ Len(trace[id]) \in {2 * ScenarioCount(scenario[id]),
                             2 * ScenarioCount(scenario[id]) + 1}
      /\ \A i \in 1..Len(trace[id]) :
            trace[id][i].status = IF i % 2 = 1 THEN "starting" ELSE "error"
      /\ \A i \in 2..(Len(trace[id]) - 1) :
            i % 2 = 0 => trace[id][i + 1].at - trace[id][i].at >= RECONNECT_DELAY_MS

C5_Witness == \E id \in Ids : scenario[id] = "s3" /\ Len(trace[id]) = 6

\* C6: when the SSH session registered for a running rule closes, the listener and
\* session are closed, the running entry is removed, the status becomes error with
\* the message "SSH connection closed unexpectedly." and a reconnect is scheduled.
C6_SessionCloseSchedulesReconnect ==
  [][\A id \in Ids :
       /\ lastOp'.op = "client-close" /\ lastOp'.id = id
       /\ running[id] = lastOp'.h /\ statuses[id].status = "running"
       => /\ running'[id] = None
          /\ \A t \in tunnels' : t.h = lastOp'.h => ~t.server /\ t.client # "open"
          /\ statuses'[id].status = "error"
          /\ statuses'[id].error = ClosedMessage
          /\ reconnectTimers'[id] # None
          /\ TimersOf(id)' # {}]_vars

\* C7: whenever the recorded status of a rule that start knows (a configuration is
\* stored for it) is error, exactly one reconnect timer is pending for the rule.
C7_ErrorHasTimer ==
  \A id \in Ids :
    statuses[id].status = "error" /\ configs[id] # None
      => reconnectTimers[id] # None /\ Cardinality(TimersOf(id)) = 1

\* C8: at most one reconnect timer is pending per rule id, and it is the one the
\* reconnectTimers table holds: a timer superseded by a later scheduleReconnect is
\* no longer pending, so it never fires.
C8_OneTimerPerId ==
  \A id \in Ids :
    /\ Cardinality(TimersOf(id)) <= 1
    /\ \A t \in TimersOf(id) : reconnectTimers[id] = t.h

\* a timer armed while another was pending for the id (the new handle is taken
\* before the old one is released), in a step of a failing start or runtime event
C8_Witness ==
  \E id \in Ids :
    /\ reconnectTimers[id] = 2
    /\ lastOp.id = id
    /\ lastOp.op \in {"precheck-fail", "connect-fail", "listen-fail", "client-close",
                      "client-error", "server-error"}

\* a step in which stop(id) is called
StopOf(id) == lastOp'.op = "stop" /\ lastOp'.id = id

AllowedEdges ==
  {<<"stopped", "starting">>, <<"starting", "running">>, <<"starting", "error">>,
   <<"running", "error">>, <<"error", "starting">>, <<"stopping", "stopped">>}
   \cup {<<s, "stopping">> : s \in {"stopped", "starting", "running", "error"}}
C10_StatusEdges ==
  [][\A id \in Ids :
       lastOp'.op \notin {"stop", "delete"} =>
         LET chain == <<GetStatus(Cur, id).status>> \o NewStatuses(id)
         IN \A i \in 1..(Len(chain) - 1) :
              chain[i] # chain[i + 1] => <<chain[i], chain[i + 1]>> \in AllowedEdges]_vars

\* C11: reconnectAt is recorded only while the status is error: a rule whose status
\* is stopped, starting, running or stopping has no reconnectAt, and every status
\* event with a status other than error carries no reconnectAt and no error message.
C11_ReconnectAtOnlyInError ==
  \A id \in Ids :
    /\ GetStatus(Cur, id).status # "error"
         => GetStatus(Cur, id).reconnectAt = NoTime /\ GetStatus(Cur, id).error = NoError
    /\ \A i \in 1..Len(events[id]) :
         events[id][i].status # "error"
           => events[id][i].reconnectAt = NoTime /\ events[id][i].error = NoError

\* the reconnect timer of a rule in error has fired: the error event carried a
\* reconnectAt and a message, the starting event that followed carries neither
C11_Witness ==
  \E id \in Ids :
    /\ lastOp.op = "timer" /\ lastOp.id = id
    /\ Len(events[id]) = 2
    /\ events[id][1].status = "error"
    /\ events[id][1].reconnectAt # NoTime /\ events[id][1].error # NoError
    /\ events[id][2].status = "starting"
    /\ statuses[id].status = "starting"

\* the start() calls that the step suspended at their first await
NewAttempts(id) == {a \in attempts' : a \notin attempts /\ a.id = id /\ a.stage = "precheck"}

\* C12: start(config) for a rule with a reconnect timer pending cancels the timer and
\* begins an attempt with the new parameters in the same step; and the attempt a
\* firing reconnect timer begins uses the configuration most recently given to start.
C12_StartSupersedesTimer ==
  [][\A id \in Ids :
       /\ lastOp'.op = "start" /\ lastOp'.id = id /\ reconnectTimers[id] # None
            => /\ reconnectTimers'[id] = None /\ TimersOf(id)' = {}
               /\ \E a \in NewAttempts(id) : a.port = configs'[id]
       /\ lastOp'.op = "timer" /\ lastOp'.id = id
            => \A a \in NewAttempts(id) : a.port = configs[id]]_vars

FailOps == {"precheck-fail", "connect-fail", "listen-fail"}

\* C13: when a start attempt fails at any stage, the promise start returned rejects
\* with exactly the message of the error event the step emits and records, the status
\* becomes error (the rule is not left in starting) and a reconnect timer is armed.
C13_FailureRejectsAndSchedules ==
  [][\A id \in Ids :
       lastOp'.op \in FailOps /\ lastOp'.id = id
         => /\ rejected' # NoError
            /\ emitted'[id] = 1
            /\ events'[id][Len(events'[id])].status = "error"
            /\ events'[id][Len(events'[id])].error = rejected'
            /\ statuses'[id].status = "error"
            /\ statuses'[id].error = rejected'
            /\ reconnectTimers'[id] # None /\ TimersOf(id)' # {}]_vars

\* the wording a failed bind is reported with
BindText(code) ==
  IF code = "EADDRINUSE" THEN "Local port is already in use."
  ELSE IF code = "EACCES" THEN "Permission denied when binding."
  ELSE "Failed to bind local listener."

\* C14: a failed start is classified by stage and cause. A bind failure (pre-check or
\* listen) is reported as already in use, permission denied or a generic bind
\* failure, naming the local host and port of the attempt; a failed connect as a
\* connection failure naming the SSH host and port. An attempt passes the stages in
\* the order pre-check, connect, listen; a failed pre-check has opened no SSH session;
\* and the error status carries reconnectAt = failure time + RECONNECT_DELAY_MS.
C14_FailureClassified ==
  [][/\ \A a \in attempts :
          /\ \A code \in BindCodes :
                PrecheckFail(a, code) \/ ListenFail(a, code)
                  => /\ statuses'[a.id].error.text = BindText(code)
                     /\ statuses'[a.id].error.host = LocalHost
                     /\ statuses'[a.id].error.port = a.port
          /\ ConnectFail(a)
                => /\ statuses'[a.id].error.text = "Unable to connect SSH."
                   /\ statuses'[a.id].error.host = SshHost
                   /\ statuses'[a.id].error.port = SshPort
          /\ lastOp'.op \in FailOps /\ lastOp'.h = a.h
                => /\ statuses'[a.id].status = "error"
                   /\ statuses'[a.id].reconnectAt = Now + RECONNECT_DELAY_MS
          /\ lastOp'.op = "precheck-fail" /\ lastOp'.h = a.h
                => a.stage = "precheck" /\ \A t \in tunnels \cup tunnels' : t.h # a.h
          /\ \A b \in attempts' :
                b.h = a.h => <<a.stage, b.stage>> \in {<<"precheck", "precheck">>,
                     <<"precheck", "connect">>, <<"connect", "connect">>,
                     <<"connect", "listen">>, <<"listen", "listen">>}
     /\ \A b \in attempts' : (\A a \in attempts : a.h # b.h) => b.stage = "precheck"
     /\ lastOp'.op = "listen-ok"
          => \E a \in attempts : a.h = lastOp'.h /\ a.stage = "listen"]_vars

\* port 5432 is taken by another process: the pre-check of start fails
C14_Witness ==
  \E id \in Ids :
    /\ lastOp.op = "precheck-fail" /\ lastOp.id = id
    /\ statuses[id].status = "error"
    /\ statuses[id].error = Msg("Local port is already in use.", LocalHost, 5432, "")
    /\ statuses[id].reconnectAt = Now + RECONNECT_DELAY_MS

\* C16: status events are emitted once per actual change of status: two consecutive
\* events for the same rule never carry the same status.
C16_NoRepeatedStatus ==
  \A id \in Ids :
    \A i \in 1..(Len(events[id]) - 1) : events[id][i].status # events[id][i + 1].status

\* C18: after a rule is deleted (stop, then clearTunnel), and until start or stop is
\* called for the id again, the manager holds nothing for the id: no status entry, no
\* stored configuration, no reconnect timer and no running entry; a start that was in
\* flight or a reconnect that was pending when the rule was deleted creates none.
C18_DeletedLeavesNothing ==
  \A id \in Ids :
    deleted[id] => /\ statuses[id] = NoStatus
                   /\ configs[id] = None
                   /\ reconnectTimers[id] = None /\ TimersOf(id) = {}
                   /\ running[id] = None

\* C15: when the host has a jump host configured, the session to the target is opened
\* only over a relay stream of the authenticated jump session (jump connect, jump
\* ready, forward-out to the target, then the target handshake over that stream); no
\* direct connection to the target is made.
C15_TargetOnlyThroughJump ==
  link.pc # "idle" /\ link.host.jump =>
    /\ \A i \in 1..Len(link.log) : link.log[i] # "target-direct"
    /\ link.pc \in {"target-connecting", "ready"}
         => link.log = <<"jump-connect", "jump-ready", "forward-out", "target-over-relay">>

\* the connection of number c, in the state after the step
ConnAfter(c) == CHOOSE d \in conns' : d.c = c

\* C17: a failure of one relayed connection (forward-out rejected, error on the client
\* socket, error on the channel) is handled by that connection alone: the running
\* entry, status, listener, session and timers of the rule are unchanged, no event is
\* emitted, every other connection is unchanged, nothing is thrown, and the failed
\* connection keeps neither an open socket nor, once its forward-out request is
\* answered, an open channel.
C17_RelayFailureIsLocal ==
  [][/\ lastOp'.op \in RelayFailures
          => /\ UNCHANGED <<running, statuses, configs, reconnectTimers, timers, attempts,
                            tunnels, events>>
             /\ emitted' = [id \in Ids |-> 0]
             /\ \A d \in conns : d.c # lastOp'.h => d \in conns'
             /\ ConnAfter(lastOp'.h).socket = "destroyed"
             /\ ~ConnAfter(lastOp'.h).uncaught
     /\ \A d \in conns' : d.socket = "destroyed" => d.stream # "open"]_vars

\* the sentinel line of the start command's output carries a positive integer
CapturedPid ==
  /\ PidLine(svc.stdout) # None
  /\ NumberOf(svc.stdout[PidLine(svc.stdout)].text).kind = "int"
  /\ NumberOf(svc.stdout[PidLine(svc.stdout)].text).v > 0

\* C19: when a positive integer PID is parsed from the sentinel line, startService
\* returns success with that PID and the log path right after the single start
\* command: no further remote command is issued.
C19_ReturnsAfterPidCapture ==
  svc.pc = "done" /\ CapturedPid
    => /\ svc.result.ok
       /\ svc.result.pid = NumberOf(svc.stdout[PidLine(svc.stdout)].text).v
       /\ svc.result.log # ""
       /\ svc.cmds = 1

\* C20: when no positive integer PID can be parsed from the sentinel line, whatever
\* the exit status of the start command, startService has returned a failure whose
\* error text carries the captured stdout and stderr ("(empty)" for an empty one),
\* and no other command ran.
C20_NoPidFails ==
  svc.pc # "idle" /\ ~CapturedPid
    => /\ svc.pc = "done"
       /\ ~svc.result.ok
       /\ svc.result.error.text
            = (IF svc.ok THEN "Failed to capture started PID." ELSE "start command failed")
       /\ svc.result.error.stdout
            = (IF svc.stdout = <<>> THEN <<[sentinel |-> FALSE, text |-> "(empty)"]>>
                                    ELSE svc.stdout)
       /\ svc.result.error.stderr = (IF svc.stderr = "" THEN "(empty)" ELSE svc.stderr)
       /\ svc.cmds = 1

\* C20 witness: the start command exited with status 0, printed a sentinel line
\* without a positive integer and wrote to stderr, and startService has returned
C20_Witness ==
  /\ svc.pc = "done"
  /\ svc.ok
  /\ PidLine(svc.stdout) # None
  /\ ~CapturedPid
  /\ svc.stderr # ""

\* the listener PID the port probe of the call found, or None
ListenerPid ==
  LET n == NumberOf(Trim(svc.port.stdout))
  IN IF n.kind = "int" /\ n.v > 0 THEN n.v ELSE None

C24_StopSignalsGroup ==
  svc.pc = "done" /\ svc.pid # None
    => /\ svc.cmds = 1
       /\ LET owners == {p \in svc.procs : p.pid = svc.pid}
          IN IF svc.psWorks /\ owners # {}
               THEN /\ svc.sent = {[group |-> TRUE, target |-> p.pgid] : p \in owners}
                    /\ svc.hit \subseteq {q \in svc.procs : \E p \in owners : q.pgid = p.pgid}
               ELSE /\ svc.sent = {[group |-> FALSE, target |-> svc.pid]}
                    /\ svc.hit \subseteq owners
       /\ svc.result.ok = svc.ret.ok
       /\ ~svc.ret.ok /\ svc.ret.stderr # "" => svc.result.error = Trim(svc.ret.stderr)
       /\ ~svc.ret.ok /\ svc.ret.stderr = "" => svc.result.error = "kill (process group) failed"

\* C24 witness: the PID belongs to a live process whose group has another member,
\* and the signal reached both
C24_Witness ==
  /\ svc.pc = "done"
  /\ svc.pid = 4243
  /\ svc.sent = {[group |-> TRUE, target |-> 4242]}
  /\ Cardinality(svc.hit) = 2
  /\ svc.result.ok

\* C25: getServiceLogs for a descriptor without a PID or without a log path returns
\* empty stdout and stderr, runs no remote command and does not throw; with one file
\* for both streams it runs one tail and returns its content as stdout with an
\* empty stderr.
C25_LogsWithoutStart ==
  svc.pc = "done"
    => /\ svc.pid = None \/ svc.stdoutPath = "" \/ svc.stderrPath = ""
            => svc.result = [stdout |-> "", stderr |-> ""] /\ svc.cmds = 0 /\ ~svc.threw
       /\ svc.pid # None /\ svc.stdoutPath # "" /\ svc.stdoutPath = svc.stderrPath /\ ~svc.threw
            => /\ svc.cmds = 1
               /\ svc.result.stderr = ""
               /\ svc.first.stdout # "" => svc.result.stdout = svc.first.stdout

\* C25 witness: a PID but no log path, on a host whose credentials cannot be built
C25_Witness ==
  /\ svc.pc = "done"
  /\ svc.pid # None /\ svc.stdoutPath = "" /\ svc.stderrPath # ""
  /\ ~svc.usable
  /\ svc.cmds = 0

\* the elements of a sequence
Chunks(seq) == {seq[i] : i \in 1..Len(seq)}

\* C28: when the 20 s timer of runSsh fires first, the session is ended and the call
\* resolves with ok false, the stdout and stderr captured so far, and the timeout
\* marker in stderr, also when stderr output was captured before; and whatever
\* happens afterwards the call has resolved exactly once.
C28_TimeoutResult ==
  [][/\ svc'.pc # "idle" => svc'.resolves <= 1
     /\ svc.pc # "idle" /\ ~svc.settled /\ svc'.settled /\ svc'.by = "timeout"
          => /\ svc'.ended
             /\ svc'.resolves = 1
             /\ ~svc'.result.ok
             /\ svc'.result.stdout = svc.stdout
             /\ Chunks(svc.stderr) \subseteq Chunks(svc'.result.stderr)
             /\ TimeoutMarker \in Chunks(svc'.result.stderr)
     /\ svc.pc # "idle" /\ svc.settled => svc'.result = svc.result]_vars

\* C29: runSsh resolves with ok true exactly when the channel closed with exit code
\* 0; a close with a nonzero code or without a code, an exec failure and a
\* connection error resolve with ok false and with the captured stdout and stderr.
C29_OkIffExitZero ==
  [][svc.pc # "idle" /\ ~svc.settled /\ svc'.settled
       => /\ svc'.result.ok <=> svc'.by = "close-0"
          /\ svc'.result.stdout = svc.stdout
          /\ Chunks(svc.stderr) \subseteq Chunks(svc'.result.stderr)]_vars

\* C30: once the client of connectClient has emitted an event the promise is settled
\* exactly once, for each manager alike: rejected (never resolved) when the first
\* event is 'error' or 'close', with the closed-before-ready message for 'close';
\* resolved (never rejected, whatever close or error follows) when it is 'ready'.
C30_ConnectSettlesOnce ==
  link.pc # "idle" /\ link.seen # <<>>
    => /\ link.resolves + link.rejects = 1
       /\ link.seen[1] \in {"error", "close"} => link.rejects = 1
       /\ link.seen[1] = "close" => link.err = ClosedBeforeReady
       /\ link.seen[1] = "error" => link.err \in ClientErrors
       /\ link.seen[1] = "ready" => link.resolves = 1

\* C30 witness: a port-forward session failed with 'error' and then closed
C30_Witness ==
  /\ link.pc = "closed"
  /\ link.kind = "forward"
  /\ link.seen = <<"error", "close">>
  /\ link.rejects = 1

\* C26: while the stored forwardLocalPort of the service is unset, the view shows
\* forwardState none, every service status event broadcast has forwardState none,
\* and no port forward is active for the service.
C26_NoForwardWithoutPort ==
  app.store.fwd = None
    => /\ ViewForwardState(app) = "none"
       /\ app.out \subseteq {"none"}
       /\ app.pf = None

\* the refreshService call of slot n found the port listened on by res.pid, which is
\* not the PID of the descriptor the call read from the store
FoundOtherPid(n, res) ==
  /\ app.usable
  /\ res.status = "running"
  /\ res.pid # None
  /\ res.pid # app.calls[n].local.pid

\* the refreshService call of slot n, which found the service running, returns
RefreshReturns(n) ==
  /\ app.calls[n].kind = "refresh"
  /\ app.calls[n].pc \in {"saved", "forwarding"}
  /\ app.calls[n].res.status = "running"
  /\ app'.calls[n].kind = "none"
  /\ app'.fin = "returned"

C23_StopWithoutPid ==
  [][\A n \in Calls :
       /\ app'.calls[n].kind = "stop" /\ app'.calls[n].pc = "stopping"
          /\ app.calls[n].kind = "none" /\ app'.calls[n].local.pid = None
            => /\ app'.store = app.store
               /\ app'.pf = app.pf
               /\ app'.ran = 0
       /\ app.calls[n].kind = "stop" /\ app.calls[n].pc = "stopping"
          /\ app.calls[n].local.pid = None
            => \A ret \in StopResults(None) :
                 StopStopped(n, ret)
                   => /\ ret = StopResult(FALSE, "PID is empty; cannot stop service.")
                      /\ app'.ran = 0
                      /\ app'.store = app.store
                      /\ app'.pf = app.pf
                      /\ app'.fin = "returned"
                      /\ app'.status = [status |-> "error", pid |-> None]]_vars

\* C23 witness: a stopService handler has ended for a service stored without a PID
\* but with log paths, no command was run and the status broadcast is error.
C23_Witness ==
  /\ app.pc = "on"
  /\ app.ended = "stop"
  /\ app.fin = "returned"
  /\ app.ran = 0
  /\ app.store.pid = None
  /\ app.store.logs
  /\ app.status = [status |-> "error", pid |-> None]

\* C27: whenever the last status broadcast for the service is starting or stopping, a
\* status other than starting and stopping is broadcast later.
C27_TransitionEnds ==
  (app.pc = "on" /\ app.status.status \in Transitional)
    ~> (app.status.status \notin Transitional)

\* C31: when a refreshService call that began while the last broadcast status was
\* starting gets stopped from the probe, its step broadcasts starting again (with the
\* PID of its descriptor) and returns; the stored descriptor, the port forward and
\* the forward state are left as they were, and stopped is not broadcast.
C31_StartingWindowKept ==
  [][\A n \in Calls :
       app.calls[n].kind = "refresh" /\ app.calls[n].pc = "checking"
       /\ app.calls[n].cur /\ app.usable
         => \A res \in CheckResults(app.calls[n].local.pid), saved \in BOOLEAN :
              RefreshChecked(n, res, saved) /\ res.status = "stopped"
                => /\ app'.status = [status |-> "starting", pid |-> app.calls[n].local.pid]
                   /\ app'.store = app.store
                   /\ app'.pf = app.pf
                   /\ app'.fstate = app.fstate
                   /\ app'.out = {app.fstate}
                   /\ app'.fin = "returned"]_vars

\* C31 witness: a refreshService call that began during a start has returned while
\* the start is still in flight, the status broadcast is starting and the stored PID
\* is kept.
C31_Witness ==
  /\ app.pc = "on"
  /\ app.ended = "refresh"
  /\ app.fin = "returned"
  /\ app.status = [status |-> "starting", pid |-> 4242]
  /\ app.store.pid = 4242
  /\ \E n \in Calls : app.calls[n].kind = "start" /\ app.calls[n].pc = "checking"

\* C32: once a stopService handler has returned after a successful stop, and as long
\* as no start is requested and no probe is launched afterwards, the port forward of
\* the service is closed, its stored PID is unset and the status broadcast is not
\* running.
C32_StoppedStays ==
  app.pc = "on" /\ app.halted = "stopped"
    => /\ app.pf = None
       /\ app.store.pid = None
       /\ app.status.status # "running"

\* C33: a step of a handler for one service leaves the stored PID of every other
\* service of the host as it is, and when no handler is in flight the stored PID of
\* each service is the one its last handler wrote.
C33_OtherServiceKept ==
  [][/\ \A s \in Services : s # app'.actor => app'.store[s] = app.store[s]
     /\ (\A n \in Calls : app'.calls[n].kind = "none") => app'.store = app'.last]_vars

\* C34: a step in which a suspended start() call fails leaves the running entry of
\* its rule id, which another start() call registered, in the table and its listener
\* and session open.
C34_FailureKeepsOtherEntry ==
  [][lastOp'.op \in {"precheck-fail", "connect-fail", "listen-fail"}
       => \A id \in Ids :
            running[id] # None /\ running[id] # lastOp'.h
              => /\ running'[id] = running[id]
                 /\ \A t \in tunnels : t.h = running[id] => t \in tunnels']_vars

\* C35: a rule id has an entry in the running table exactly when getStatus reports
\* running for it.
C35_RunningIffStatus ==
  \A id \in Ids : (running[id] # None) <=> (GetStatus(Cur, id).status = "running")

\* C35 witness: a runtime failure of the registered pair has just taken the rule out
\* of the running table and set its status to error.
C35_Witness ==
  \E id \in Ids :
    /\ running[id] = None
    /\ GetStatus(Cur, id).status = "error"
    /\ lastOp.op \in {"client-close", "client-error", "server-error"}
    /\ lastOp.id = id

\* C36: while no handler is in flight, a forwardState of ok (the one every status
\* event carries) means that a port forward is active for the service.
C36_OkMeansActive ==
  app.pc = "on" /\ (\A n \in Calls : app.calls[n].kind = "none") /\ app.fstate = "ok"
    => app.pf # None

\* an opened forward: its listener is listening and its session is open
OpenForwards == {h \in Forwards : app.fwd[h].server = "listening" /\ app.fwd[h].client = "open"}

\* C37: for the forward key at most one port forward is open at a time, also when
\* calls of start overlap.
C37_OneForwardPerKey ==
  app.pc = "pf" => Cardinality(OpenForwards) <= 1

\* the call in slot n fails after it has opened a session
StartFailsAfterOpen(n) ==
  \/ PfForwardOut(n, FALSE)
  \/ PfConnect(n, FALSE) /\ app.fwd[app.calls[n].h].jump = "open"
  \/ PfListen(n, FALSE)

\* C38: when start fails after it has opened an SSH session, every session that call
\* opened is closed and the running table holds no entry of that call.
C38_FailedStartClosesSessions ==
  [][\A n \in Calls :
       app.pc = "pf" /\ app.calls[n].pc \in {"jumpout", "connect", "listen"}
         /\ StartFailsAfterOpen(n)
         => /\ app'.fwd[app.calls[n].h].client # "open"
            /\ app'.fwd[app.calls[n].h].jump # "open"
            /\ app'.running # app.calls[n].h]_vars

\* C39: a stop of the forward that has begun always finishes, and ends the SSH
\* session of the forward, also when relayed connections are open on the listener.
C39_StopTerminates ==
  \A h \in Forwards :
    (app.pc = "pf" /\ app.fwd[h].stop = "waiting")
      ~> (app.fwd[h].stop = "done" /\ app.fwd[h].client # "open")

====
